---- MODULE Spec2Model ----
(***************************************************************************)
(* Model of the heating-compliance core of apartment_temperature:          *)
(*   src/lib/dataAggregator.ts  aggregateReadings, identifyViolationPeriods *)
(*                              and its merge pass.                         *)
(*                                                                          *)
(* Time.  A Date is modelled by its getTime() value counted in ticks of 30  *)
(* seconds, so that timestamps between two whole minutes exist and          *)
(* Math.round of a gap in minutes is not the identity.  Local time is the   *)
(* model clock: tick 0 is local midnight.                                   *)
(*                                                                          *)
(* Numbers.  Temperatures are integers (degrees Fahrenheit).  A quotient    *)
(* computed by the code (an average) is an exact fraction in lowest terms,  *)
(* [num, den] with den > 0; IEEE rounding of the quotient is not modelled.  *)
(***************************************************************************)
EXTENDS Integers, Sequences, FiniteSets

VARIABLES
    readings,             \* the TemperatureReading[] given to the function under study
    gapToleranceMinutes,  \* identifyViolationPeriods' second parameter
    pc,                   \* position in the code
    i,                    \* forEach index of the scan: next reading to visit (1-based)
    currentPeriod,        \* the scan's open period, or NoPeriod (null)
    periods,              \* the scan's finalized periods (pre-merge)
    mi,                   \* the merge loop's index: next period to visit (1-based)
    current,              \* the merge loop's accumulator
    merged,               \* the merge loop's output list
    result,               \* identifyViolationPeriods' return value
    again,                \* mergeCloseViolationPeriods applied to result once more
    interval,             \* aggregateReadings' second parameter
    aggregated,           \* aggregateReadings' return value
    args,                 \* the arguments of the function being called
    returned,             \* that function's return value
    stats,                \* calculateComplianceStats' return value
    dayViolations,        \* groupViolationsByDay's return value
    indoorData,           \* page.tsx loadData: the parsed indoor readings
    allReadings,          \* page.tsx state
    allRadiatorReadings,  \* page.tsx state
    loading,              \* page.tsx state
    error,                \* page.tsx state
    dateRange,            \* page.tsx state
    outdoorDataLoading    \* page.tsx state

pipelineVars == <<readings, gapToleranceMinutes, pc, i, currentPeriod, periods, mi,
                  current, merged, result, again, interval, aggregated>>

callVars == <<args, returned>>

derivedVars == <<stats, dayViolations>>

pageVars == <<indoorData, allReadings, allRadiatorReadings, loading, error,
              dateRange, outdoorDataLoading>>

vars == <<pipelineVars, callVars, derivedVars, pageVars>>

(***************************************************************************)
(* Bounds and input domains                                                 *)
(***************************************************************************)
\* longest enumerated reading sequence
MaxLen == 3

\* number of violation runs in the long alternating inputs (see LongInputs)
LongRuns == 3

\* 1000 * 60 milliseconds, in ticks
MinuteTicks == 2

HourTicks == 60 * MinuteTicks

\* the tick of h:m:00 (+ half a minute when half = 1) on day 0
At(h, m, half) == h * HourTicks + m * MinuteTicks + half

\* Timestamps around 22:00, where daytime turns into nighttime and where a
\* 5-, 30- and 60-minute bucket all begin.  Same-type gaps of 1.5, 2, 3.5,
\* 5, 5.5 and 7 minutes occur among them.
Timestamps ==
    { At(21, 58, 0), At(21, 59, 1), At(22, 0, 0), At(22, 1, 1), At(22, 5, 0), At(22, 7, 0) }

Temperatures == { 60, 67 }

Humidities == { 40 }

DefaultGapTolerance == 5

Tolerances == { 2, DefaultGapTolerance }

Intervals == { "1min", "5min", "30min", "1hour" }

Reading(ts, temp, hum, ok) ==
    [timestamp |-> ts, temperature |-> temp, humidity |-> hum, isCompliant |-> ok]

ReadingsAt(T) ==
    { Reading(ts, temp, hum, ok) : ts \in T, temp \in Temperatures,
                                   hum \in Humidities, ok \in BOOLEAN }

\* every sequence over S of length at most n
SeqsUpTo(S, n) == UNION { [1..len -> S] : len \in 0..n }

IsSorted(rs) ==
    \A k \in 1..(Len(rs) - 1) : rs[k].timestamp <= rs[k + 1].timestamp

IsStrictlySorted(rs) ==
    \A k \in 1..(Len(rs) - 1) : rs[k].timestamp < rs[k + 1].timestamp

(***************************************************************************)
(* JavaScript numbers                                                       *)
(***************************************************************************)
Abs(x) == IF x < 0 THEN -x ELSE x

RECURSIVE GCD(_, _)
GCD(a, b) == IF b = 0 THEN a ELSE GCD(b, a % b)

\* n / d for d > 0, exactly
Frac(n, d) ==
    LET g == GCD(Abs(n), d)
    IN  [num |-> n \div g, den |-> d \div g]

RECURSIVE SumSeq(_)
SumSeq(s) == IF s = <<>> THEN 0 ELSE s[1] + SumSeq(Tail(s))

Range(s) == { s[k] : k \in DOMAIN s }

MathMin(s) == CHOOSE x \in Range(s) : \A y \in Range(s) : x <= y

MathMax(s) == CHOOSE x \in Range(s) : \A y \in Range(s) : x >= y

\* Math.round(ticks / MinuteTicks): the nearest integer, a half rounding up
RoundMinutes(ticks) == (2 * ticks + MinuteTicks) \div (2 * MinuteTicks)

getHours(ts) == (ts \div HourTicks) % 24

Temps(rs) == [k \in DOMAIN rs |-> rs[k].temperature]

(***************************************************************************)
(* identifyViolationPeriods: the scan                                       *)
(***************************************************************************)
NoPeriod == [start |-> -1, readings |-> <<>>, type |-> "none"]

PeriodTypeInclusive(hour) == IF hour >= 6 /\ hour <= 22 THEN "daytime" ELSE "nighttime"

PeriodType(hour) == IF hour >= 6 /\ hour < 22 THEN "daytime" ELSE "nighttime"

finalizePeriodWallClock(period) ==
    LET temps == Temps(period.readings)
        last  == period.readings[Len(period.readings)].timestamp
    IN  [start    |-> period.start,
         end      |-> last,
         duration |-> RoundMinutes(last - period.start),
         minTemp  |-> MathMin(temps),
         maxTemp  |-> MathMax(temps),
         avgTemp  |-> Frac(SumSeq(temps), Len(temps)),
         type     |-> period.type]

finalizePeriod(period) ==
    LET temps == Temps(period.readings)
    IN  [start    |-> period.start,
         end      |-> period.readings[Len(period.readings)].timestamp,
         duration |-> Len(period.readings),
         minTemp  |-> MathMin(temps),
         maxTemp  |-> MathMax(temps),
         avgTemp  |-> Frac(SumSeq(temps), Len(temps)),
         type     |-> period.type]

ScanReadingIgnoringType(cp, ps, reading) ==
    IF ~reading.isCompliant
    THEN LET type == PeriodType(getHours(reading.timestamp))
         IN  IF cp # NoPeriod
             THEN [currentPeriod |-> [cp EXCEPT !.readings = Append(@, reading)],
                   periods       |-> ps]
             ELSE [currentPeriod |-> [start    |-> reading.timestamp,
                                      readings |-> <<reading>>,
                                      type     |-> type],
                   periods       |-> ps]
    ELSE IF cp # NoPeriod
         THEN [currentPeriod |-> NoPeriod, periods |-> Append(ps, finalizePeriod(cp))]
         ELSE [currentPeriod |-> cp, periods |-> ps]

\* the forEach callback: the scan's state after visiting one reading
ScanReading(cp, ps, reading) ==
    IF ~reading.isCompliant
    THEN LET type == PeriodType(getHours(reading.timestamp))
         IN  IF cp # NoPeriod /\ cp.type = type
             THEN [currentPeriod |-> [cp EXCEPT !.readings = Append(@, reading)],
                   periods       |-> ps]
             ELSE [currentPeriod |-> [start    |-> reading.timestamp,
                                      readings |-> <<reading>>,
                                      type     |-> type],
                   periods       |-> IF cp # NoPeriod
                                     THEN Append(ps, finalizePeriod(cp))
                                     ELSE ps]
    ELSE IF cp # NoPeriod
         THEN [currentPeriod |-> NoPeriod, periods |-> Append(ps, finalizePeriod(cp))]
         ELSE [currentPeriod |-> cp, periods |-> ps]

FinalizeOpenDropped(cp, ps) == ps

\* "Don't forget the last period if still open"
FinalizeOpen(cp, ps) == IF cp # NoPeriod THEN Append(ps, finalizePeriod(cp)) ELSE ps

(***************************************************************************)
(* mergeCloseViolationPeriods                                               *)
(***************************************************************************)
\* next.start.getTime() - current.end.getTime(), in ticks
GapTicks(cur, next) == next.start - cur.end

ShouldMergeAnyType(cur, next, tol) == GapTicks(cur, next) <= tol * MinuteTicks

ShouldMergeStrictlyWithin(cur, next, tol) ==
    cur.type = next.type /\ GapTicks(cur, next) < tol * MinuteTicks

ShouldMerge(cur, next, tol) ==
    cur.type = next.type /\ GapTicks(cur, next) <= tol * MinuteTicks

\* (a1 * d1 + a2 * d2) / (d1 + d2) on fractions a1, a2
WeightedAvg(a1, d1, a2, d2) ==
    Frac(a1.num * d1 * a2.den + a2.num * d2 * a1.den, a1.den * a2.den * (d1 + d2))

MergedPeriodNoGap(cur, next) ==
    [start    |-> cur.start,
     end      |-> next.end,
     duration |-> cur.duration + next.duration,
     minTemp  |-> IF cur.minTemp <= next.minTemp THEN cur.minTemp ELSE next.minTemp,
     maxTemp  |-> IF cur.maxTemp >= next.maxTemp THEN cur.maxTemp ELSE next.maxTemp,
     avgTemp  |-> WeightedAvg(cur.avgTemp, cur.duration, next.avgTemp, next.duration),
     type     |-> cur.type]

MergedPeriodBridged(cur, next) ==
    [start    |-> cur.start,
     end      |-> next.end,
     duration |-> cur.duration + next.duration + RoundMinutes(GapTicks(cur, next)) - 1,
     minTemp  |-> IF cur.minTemp <= next.minTemp THEN cur.minTemp ELSE next.minTemp,
     maxTemp  |-> IF cur.maxTemp >= next.maxTemp THEN cur.maxTemp ELSE next.maxTemp,
     avgTemp  |-> WeightedAvg(cur.avgTemp, cur.duration, next.avgTemp, next.duration),
     type     |-> cur.type]

MergedPeriod(cur, next) ==
    [start    |-> cur.start,
     end      |-> next.end,
     duration |-> cur.duration + next.duration + RoundMinutes(GapTicks(cur, next)),
     minTemp  |-> IF cur.minTemp <= next.minTemp THEN cur.minTemp ELSE next.minTemp,
     maxTemp  |-> IF cur.maxTemp >= next.maxTemp THEN cur.maxTemp ELSE next.maxTemp,
     avgTemp  |-> WeightedAvg(cur.avgTemp, cur.duration, next.avgTemp, next.duration),
     type     |-> cur.type]

\* one iteration of the for loop
MergeNext(cur, mrg, next, tol) ==
    IF ShouldMerge(cur, next, tol)
    THEN [current |-> MergedPeriod(cur, next), merged |-> mrg]
    ELSE [current |-> next, merged |-> Append(mrg, cur)]

MergeResultDropped(mrg, cur) == mrg

\* "Don't forget the last period"
MergeResult(mrg, cur) == Append(mrg, cur)

RECURSIVE MergeLoop(_, _, _, _, _)
MergeLoop(ps, k, cur, mrg, tol) ==
    IF k > Len(ps) THEN MergeResult(mrg, cur)
    ELSE LET st == MergeNext(cur, mrg, ps[k], tol)
         IN  MergeLoop(ps, k + 1, st.current, st.merged, tol)

mergeCloseViolationPeriods(ps, tol) ==
    IF Len(ps) = 0 THEN ps ELSE MergeLoop(ps, 2, ps[1], <<>>, tol)

(***************************************************************************)
(* Inputs of identifyViolationPeriods.  The page passes it readings that    *)
(* parseTemperatureCSV has sorted ascending by timestamp.                   *)
(***************************************************************************)
\* every sorted sequence of at most MaxLen readings around 22:00
EnumInputs == { rs \in SeqsUpTo(ReadingsAt(Timestamps), MaxLen) : IsSorted(rs) }

\* Scenario A: five one-minute readings at hour 10
ScenarioA ==
    << Reading(At(10, 0, 0), 69, 40, TRUE),
       Reading(At(10, 1, 0), 67, 40, FALSE),
       Reading(At(10, 2, 0), 66, 40, FALSE),
       Reading(At(10, 3, 0), 68, 40, TRUE),
       Reading(At(10, 4, 0), 70, 40, TRUE) >>

\* Scenario B: a daytime run of d1 readings ending at 10:10, a compliant
\* reading, a daytime run of d2 readings starting at 10:13
ScenarioBRun(firstMinute, d) ==
    [k \in 1..d |-> Reading(At(10, firstMinute + k - 1, 0), 66, 40, FALSE)]

ScenarioB(d1, d2) ==
    ScenarioBRun(11 - d1, d1) \o << Reading(At(10, 11, 1), 69, 40, TRUE) >> \o ScenarioBRun(13, d2)

ScenarioBInputs == { ScenarioB(d1, d2) : d1 \in 1..2, d2 \in 1..2 }

KthSmallest(S, k) == CHOOSE x \in S : Cardinality({ y \in S : y < x }) = k - 1

LongTimestamps == Timestamps \cup { At(22, 9, 1), At(22, 16, 0) }

\* LongRuns single-reading violations at strictly increasing timestamps,
\* each two separated by one compliant reading
LongInputs ==
    LET n == 2 * LongRuns - 1
    IN  { [k \in 1..n |-> Reading(KthSmallest(S, k), t[k], 40, k % 2 = 0)] :
            S \in { X \in SUBSET LongTimestamps : Cardinality(X) = n },
            t \in [1..n -> Temperatures] }

(***************************************************************************)
(* Specification: identifyViolationPeriods(readings, gapToleranceMinutes),  *)
(* then the merge pass once more on its result                              *)
(***************************************************************************)
\* no function call in progress
NoCall ==
    /\ args = <<>>
    /\ returned = <<>>

\* nothing derived from the readings yet
NoDerived ==
    /\ stats = <<>>
    /\ dayViolations = <<>>

\* useState initial values; null is the empty sequence
PageConstructed ==
    /\ indoorData = <<>>
    /\ allReadings = <<>>
    /\ allRadiatorReadings = <<>>
    /\ loading = TRUE
    /\ error = <<>>
    /\ dateRange = <<>>
    /\ outdoorDataLoading = FALSE

NoAccumulator ==
    [start |-> -1, end |-> -1, duration |-> 0, minTemp |-> 0, maxTemp |-> 0,
     avgTemp |-> Frac(0, 1), type |-> "none"]

InitScan(rs, tol) ==
    /\ readings = rs
    /\ gapToleranceMinutes = tol
    /\ pc = "scan"
    /\ i = 1
    /\ currentPeriod = NoPeriod
    /\ periods = <<>>
    /\ mi = 0
    /\ current = NoAccumulator
    /\ merged = <<>>
    /\ result = <<>>
    /\ again = <<>>
    /\ interval = "none"
    /\ aggregated = <<>>
    /\ NoCall
    /\ NoDerived
    /\ PageConstructed

InitEnum == \E rs \in EnumInputs, tol \in Tolerances : InitScan(rs, tol)

InitScenarioA == InitScan(ScenarioA, DefaultGapTolerance)

InitScenarioB == \E rs \in ScenarioBInputs : InitScan(rs, DefaultGapTolerance)

InitLong == \E rs \in LongInputs, tol \in Tolerances : InitScan(rs, tol)

Init == InitEnum \/ InitScenarioA \/ InitScenarioB \/ InitLong

\* readings.forEach: visit readings[i]
ScanStep ==
    /\ pc = "scan"
    /\ i <= Len(readings)
    /\ LET st == ScanReading(currentPeriod, periods, readings[i])
       IN  /\ currentPeriod' = st.currentPeriod
           /\ periods' = st.periods
    /\ i' = i + 1
    /\ UNCHANGED <<readings, gapToleranceMinutes, pc, mi, current, merged, result,
                   again, interval, aggregated>>
    /\ UNCHANGED <<callVars, derivedVars, pageVars>>

\* after the forEach: finalize the open period and enter the merge pass,
\* which returns at once on an empty list
ScanEnd ==
    /\ pc = "scan"
    /\ i > Len(readings)
    /\ periods' = FinalizeOpen(currentPeriod, periods)
    /\ IF Len(periods') = 0
       THEN /\ pc' = "done"
            /\ result' = periods'
            /\ UNCHANGED <<mi, current, merged>>
       ELSE /\ pc' = "merge"
            /\ current' = periods'[1]
            /\ merged' = <<>>
            /\ mi' = 2
            /\ UNCHANGED result
    /\ UNCHANGED <<readings, gapToleranceMinutes, i, currentPeriod, again, interval,
                   aggregated>>
    /\ UNCHANGED <<callVars, derivedVars, pageVars>>

\* one iteration of the merge loop
MergeStep ==
    /\ pc = "merge"
    /\ mi <= Len(periods)
    /\ LET st == MergeNext(current, merged, periods[mi], gapToleranceMinutes)
       IN  /\ current' = st.current
           /\ merged' = st.merged
    /\ mi' = mi + 1
    /\ UNCHANGED <<readings, gapToleranceMinutes, pc, i, currentPeriod, periods,
                   result, again, interval, aggregated>>
    /\ UNCHANGED <<callVars, derivedVars, pageVars>>

\* after the loop: push the accumulator and return
MergeEnd ==
    /\ pc = "merge"
    /\ mi > Len(periods)
    /\ merged' = MergeResult(merged, current)
    /\ result' = merged'
    /\ pc' = "done"
    /\ UNCHANGED <<readings, gapToleranceMinutes, i, currentPeriod, periods, mi,
                   current, again, interval, aggregated>>
    /\ UNCHANGED <<callVars, derivedVars, pageVars>>

\* the merge pass applied to an already merged list, same tolerance
MergeAgain ==
    /\ pc = "done"
    /\ again' = mergeCloseViolationPeriods(result, gapToleranceMinutes)
    /\ pc' = "remerged"
    /\ UNCHANGED <<readings, gapToleranceMinutes, i, currentPeriod, periods, mi,
                   current, merged, result, interval, aggregated>>
    /\ UNCHANGED <<callVars, derivedVars, pageVars>>

Next == ScanStep \/ ScanEnd \/ MergeStep \/ MergeEnd \/ MergeAgain

Spec == Init /\ [][Next]_vars

(***************************************************************************)
(* aggregateReadings                                                        *)
(***************************************************************************)
getIntervalMinutes(iv) ==
    CASE iv = "1min"  -> 1
      [] iv = "5min"  -> 5
      [] iv = "30min" -> 30
      [] iv = "1hour" -> 60

floorToIntervalNearest(ts, intervalMinutes) ==
    LET intervalTicks == intervalMinutes * MinuteTicks
    IN  ((2 * ts + intervalTicks) \div (2 * intervalTicks)) * intervalTicks

\* Math.floor(ms / intervalMs) * intervalMs
floorToInterval(ts, intervalMinutes) ==
    LET intervalTicks == intervalMinutes * MinuteTicks
    IN  (ts \div intervalTicks) * intervalTicks

\* A Map<number, TemperatureReading[]> is the sequence of its entries in
\* insertion order, which is the order Map.forEach visits them in.
HasBucket(buckets, key) == \E b \in DOMAIN buckets : buckets[b].key = key

AddToBucketOverwriting(buckets, key, reading) ==
    IF HasBucket(buckets, key)
    THEN LET b == CHOOSE c \in DOMAIN buckets : buckets[c].key = key
         IN  [buckets EXCEPT ![b].readings = <<reading>>]
    ELSE Append(buckets, [key |-> key, readings |-> <<reading>>])

\* if (!buckets.has(t)) buckets.set(t, []); buckets.get(t).push(reading)
AddToBucket(buckets, key, reading) ==
    IF HasBucket(buckets, key)
    THEN LET b == CHOOSE c \in DOMAIN buckets : buckets[c].key = key
         IN  [buckets EXCEPT ![b].readings = Append(@, reading)]
    ELSE Append(buckets, [key |-> key, readings |-> <<reading>>])

RECURSIVE GroupReadings(_, _, _, _)
GroupReadings(rs, k, buckets, intervalMinutes) ==
    IF k > Len(rs) THEN buckets
    ELSE GroupReadings(rs, k + 1,
                       AddToBucket(buckets, floorToInterval(rs[k].timestamp, intervalMinutes),
                                   rs[k]),
                       intervalMinutes)

CountViolations(bucketReadings) ==
    Cardinality({ k \in DOMAIN bucketReadings : ~bucketReadings[k].isCompliant })

BucketCompliantLenient(violationCount) == violationCount <= 1

\* "Consider the interval compliant only if all readings are compliant"
BucketCompliant(violationCount) == violationCount = 0

Humidities_(rs) == [k \in DOMAIN rs |-> rs[k].humidity]

\* the body of buckets.forEach
AggregateBucket(bucketTime, bucketReadings) ==
    LET temps          == Temps(bucketReadings)
        humidities     == Humidities_(bucketReadings)
        violationCount == CountViolations(bucketReadings)
    IN  [timestamp      |-> bucketTime,
         avgTemperature |-> Frac(SumSeq(temps), Len(temps)),
         minTemperature |-> MathMin(temps),
         maxTemperature |-> MathMax(temps),
         avgHumidity    |-> Frac(SumSeq(humidities), Len(humidities)),
         isCompliant    |-> BucketCompliant(violationCount),
         violationCount |-> violationCount,
         totalReadings  |-> Len(bucketReadings)]

AggregateBuckets(buckets) ==
    [b \in DOMAIN buckets |-> AggregateBucket(buckets[b].key, buckets[b].readings)]

\* where Array.prototype.sort (stable) puts x among the already sorted
InsertByTimestamp(sorted, x) ==
    LET n == Cardinality({ k \in DOMAIN sorted : sorted[k].timestamp <= x.timestamp })
    IN  SubSeq(sorted, 1, n) \o <<x>> \o SubSeq(sorted, n + 1, Len(sorted))

RECURSIVE SortLoop(_, _, _)
SortLoop(bs, k, sorted) ==
    IF k > Len(bs) THEN sorted ELSE SortLoop(bs, k + 1, InsertByTimestamp(sorted, bs[k]))

SortByTimestampSkipped(bs) == bs

\* aggregated.sort((a, b) => a.timestamp.getTime() - b.timestamp.getTime())
SortByTimestamp(bs) == SortLoop(bs, 1, <<>>)

\* the path of the 5-, 30- and 60-minute intervals
Bucketed(rs, intervalMinutes) ==
    SortByTimestamp(AggregateBuckets(GroupReadings(rs, 1, <<>>, intervalMinutes)))

PassThroughBucketed(rs) == Bucketed(rs, 1)

\* "No aggregation needed for 1-minute intervals": readings.map(...)
PassThrough(rs) ==
    [k \in DOMAIN rs |->
        [timestamp      |-> rs[k].timestamp,
         avgTemperature |-> Frac(rs[k].temperature, 1),
         minTemperature |-> rs[k].temperature,
         maxTemperature |-> rs[k].temperature,
         avgHumidity    |-> Frac(rs[k].humidity, 1),
         isCompliant    |-> rs[k].isCompliant,
         violationCount |-> IF rs[k].isCompliant THEN 0 ELSE 1,
         totalReadings  |-> 1]]

aggregateReadings(rs, iv) ==
    IF iv = "1min" THEN PassThrough(rs) ELSE Bucketed(rs, getIntervalMinutes(iv))

(***************************************************************************)
(* Specification: aggregateReadings(readings, interval).  The function is   *)
(* exported and sorts its own output, so it is given readings in any order. *)
(***************************************************************************)
\* 21:58:00 and 21:59:30 share a 5-minute bucket; 22:00:00 begins a 5-, a
\* 30- and a 60-minute bucket, 22:05:00 another 5-minute bucket
AggTimestamps == { At(21, 58, 0), At(21, 59, 1), At(22, 0, 0), At(22, 5, 0) }

AggInputs == SeqsUpTo(ReadingsAt(AggTimestamps), MaxLen)

\* a reading enriched with an outdoor temperature (types.ts: outdoorTemp?)
WithOutdoor(reading, outdoorTemp) ==
    [timestamp |-> reading.timestamp, temperature |-> reading.temperature,
     humidity |-> reading.humidity, isCompliant |-> reading.isCompliant,
     outdoorTemp |-> outdoorTemp]

OutdoorTemps == { 50, 57 }

\* readings of one 5-minute bucket, with and without an outdoor temperature
OutdoorReadings ==
    LET plain == { Reading(ts, 60, 40, TRUE) : ts \in { At(21, 58, 0), At(21, 59, 1) } }
    IN  plain \cup { WithOutdoor(r, out) : r \in plain, out \in OutdoorTemps }

OutdoorInputs == SeqsUpTo(OutdoorReadings, MaxLen - 1)

InitAggregate(rs, iv) ==
    /\ readings = rs
    /\ interval = iv
    /\ pc = "aggregate"
    /\ aggregated = <<>>
    /\ gapToleranceMinutes = DefaultGapTolerance
    /\ i = 0
    /\ currentPeriod = NoPeriod
    /\ periods = <<>>
    /\ mi = 0
    /\ current = NoAccumulator
    /\ merged = <<>>
    /\ result = <<>>
    /\ again = <<>>
    /\ NoCall
    /\ NoDerived
    /\ PageConstructed

InitAgg ==
    \/ \E rs \in AggInputs, iv \in Intervals : InitAggregate(rs, iv)
    \/ \E iv \in Intervals : InitAggregate(ScenarioA, iv)
    \/ \E rs \in OutdoorInputs, iv \in Intervals : InitAggregate(rs, iv)

Aggregate ==
    /\ pc = "aggregate"
    /\ aggregated' = aggregateReadings(readings, interval)
    /\ pc' = "aggregated"
    /\ UNCHANGED <<readings, interval, gapToleranceMinutes, i, currentPeriod, periods,
                   mi, current, merged, result, again>>
    /\ UNCHANGED <<callVars, derivedVars, pageVars>>

NextAgg == Aggregate

SpecAgg == InitAgg /\ [][NextAgg]_vars

(***************************************************************************)
(* Runs of the input, defined from the readings alone                       *)
(***************************************************************************)
TypeOfReading(r) == IF getHours(r.timestamp) \in 6..21 THEN "daytime" ELSE "nighttime"

Violation(k) == ~readings[k].isCompliant

\* readings k and k + 1 belong to one run
SameRun(k) ==
    /\ Violation(k)
    /\ Violation(k + 1)
    /\ TypeOfReading(readings[k]) = TypeOfReading(readings[k + 1])

RunStarts == { k \in DOMAIN readings : Violation(k) /\ (k = 1 \/ ~SameRun(k - 1)) }

RunEnd(k) ==
    CHOOSE j \in k..Len(readings) :
        /\ \A m \in k..(j - 1) : SameRun(m)
        /\ j = Len(readings) \/ ~SameRun(j)

\* the position of the run starting at k among all runs
RunRank(k) == Cardinality({ s \in RunStarts : s <= k })

\* the run that reading k lies in starts here
RunStartOf(k) == CHOOSE s \in RunStarts : s <= k /\ k <= RunEnd(s)

Durations(ps) == [k \in DOMAIN ps |-> ps[k].duration]

ViolationsUpTo(n) == Cardinality({ k \in 1..n : Violation(k) })

\* the merge loop has just joined periods[mi] into the accumulator
Joined == pc = "merge" /\ mi' = mi + 1 /\ merged' = merged

(***************************************************************************)
(* Claims                                                                   *)
(***************************************************************************)

\* C1: the durations of the periods the scan has finalized, plus the readings
\* of the period still open, count exactly the non-compliant readings visited
\* so far; once the scan has ended (the open period finalized), the pre-merge
\* durations sum to the number of non-compliant readings of the input.
C1_DurationsSumToViolations ==
    /\ pc = "scan" =>
         SumSeq(Durations(periods)) + Len(currentPeriod.readings) = ViolationsUpTo(i - 1)
    /\ pc # "scan" =>
         SumSeq(Durations(periods)) = ViolationsUpTo(Len(readings))

\* C1 witness: the scan ended with a period open at the last reading, after
\* finalizing another one earlier
C1_Witness ==
    /\ pc = "done"
    /\ Len(periods) >= 2
    /\ Violation(Len(readings))
    /\ \E k \in DOMAIN readings : ~Violation(k)

\* C2: whenever the merge loop joins the next period into the accumulator,
\* both have the same type and the gap from the accumulator's end to the next
\* period's start is at most the tolerance.
C2_JoinOnlySameTypeWithinTolerance ==
    [][Joined =>
        /\ current.type = periods[mi].type
        /\ periods[mi].start - current.end <= gapToleranceMinutes * MinuteTicks]_vars

\* C2 witness: the accumulator has joined one period under the default
\* tolerance and the loop then left a same-type period unjoined
C2_Witness ==
    /\ pc = "done"
    /\ gapToleranceMinutes = DefaultGapTolerance
    /\ Len(periods) = 3
    /\ Len(result) = 2
    /\ result[1].end = periods[2].end
    /\ result[2].type = result[1].type

\* C3: merging an already merged list again with the same tolerance returns
\* the identical list.
C3_MergeIdempotent == pc = "remerged" => again = result

\* C3 witness: a list that the first pass shortened and that still has two
\* periods is merged again
C3_Witness ==
    /\ pc = "remerged"
    /\ Len(result) < Len(periods)
    /\ Len(result) >= 2

\* C4: during the scan, a compliant reading leaves no period open and a
\* non-compliant reading leaves open exactly the run it lies in (starting at
\* that reading when it begins a run), whose type is the type of each of its
\* readings; after the scan there is one period per maximal same-type run of
\* non-compliant readings, in order, spanning that run.
C4_PeriodsAreMaximalRuns ==
    /\ \A k \in DOMAIN currentPeriod.readings :
         /\ ~currentPeriod.readings[k].isCompliant
         /\ TypeOfReading(currentPeriod.readings[k]) = currentPeriod.type
    /\ (pc = "scan" /\ i > 1) =>
         IF Violation(i - 1)
         THEN /\ currentPeriod.type = TypeOfReading(readings[i - 1])
              /\ currentPeriod.start = readings[RunStartOf(i - 1)].timestamp
              /\ currentPeriod.readings = SubSeq(readings, RunStartOf(i - 1), i - 1)
              /\ Len(periods) = RunRank(i - 1) - 1
         ELSE currentPeriod = NoPeriod
    /\ pc # "scan" =>
         /\ Len(periods) = Cardinality(RunStarts)
         /\ \A k \in RunStarts :
              LET p == periods[RunRank(k)]
              IN  /\ p.type = TypeOfReading(readings[k])
                  /\ p.start = readings[k].timestamp
                  /\ p.end = readings[RunEnd(k)].timestamp
                  /\ p.duration = RunEnd(k) - k + 1

\* C4 witness: a daytime violation followed directly by a nighttime
\* violation, then a compliant reading: two periods, none open
C4_Witness ==
    /\ pc = "scan"
    /\ i = 4
    /\ Violation(1) /\ Violation(2) /\ ~Violation(3)
    /\ TypeOfReading(readings[1]) = "daytime"
    /\ TypeOfReading(readings[2]) = "nighttime"
    /\ Len(periods) = 2
    /\ currentPeriod = NoPeriod

\* C5: every finalized period starts at its run's first reading, ends at its
\* last, has the number of readings as duration and the minimum, maximum and
\* mean of the run's temperatures; Scenario A returns the one period stated.
C5_FinalizedPeriodFields ==
    /\ pc # "scan" =>
         /\ Len(periods) = Cardinality(RunStarts)
         /\ \A k \in RunStarts :
              LET p     == periods[RunRank(k)]
                  j     == RunEnd(k)
                  temps == { readings[m].temperature : m \in k..j }
              IN  /\ p.start = readings[k].timestamp
                  /\ p.end = readings[j].timestamp
                  /\ p.duration = j - k + 1
                  /\ p.minTemp \in temps /\ \A t \in temps : p.minTemp <= t
                  /\ p.maxTemp \in temps /\ \A t \in temps : p.maxTemp >= t
                  /\ p.avgTemp.den > 0
                  /\ p.avgTemp.num * (j - k + 1) =
                       p.avgTemp.den * SumSeq(Temps(SubSeq(readings, k, j)))
    /\ (pc = "done" /\ readings = ScenarioA) =>
         result = << [start    |-> At(10, 1, 0),
                      end      |-> At(10, 2, 0),
                      duration |-> 2,
                      minTemp  |-> 66,
                      maxTemp  |-> 67,
                      avgTemp  |-> [num |-> 133, den |-> 2],
                      type     |-> "daytime"] >>

\* C5 witness: a period of three readings that are not one minute apart,
\* with two different temperatures
C5_Witness ==
    /\ pc = "done"
    /\ \E k \in DOMAIN periods :
         /\ periods[k].duration = 3
         /\ periods[k].end - periods[k].start # 2 * MinuteTicks
         /\ periods[k].minTemp < periods[k].maxTemp
         /\ periods[k].avgTemp.den = 3

\* the integer nearest to ticks / MinuteTicks, a half counting upwards
NearestMinute(ticks) ==
    CHOOSE n \in 0..ticks :
        /\ 2 * MinuteTicks * n - MinuteTicks <= 2 * ticks
        /\ 2 * ticks < 2 * MinuteTicks * n + MinuteTicks

\* C6: a join keeps the accumulator's start and type, takes the next
\* period's end, adds both durations and the rounded gap, and takes the
\* smaller minTemp and the larger maxTemp; in Scenario B (gap 3 minutes,
\* tolerance 5) the result is one period of duration d1 + d2 + 3.
C6_JoinedPeriodFields ==
    /\ [][Joined =>
            LET next == periods[mi]
            IN  /\ current'.start = current.start
                /\ current'.end = next.end
                /\ current'.type = current.type
                /\ current'.type = next.type
                /\ current'.duration = current.duration + next.duration
                                         + NearestMinute(next.start - current.end)
                /\ current'.minTemp \in { current.minTemp, next.minTemp }
                /\ current'.minTemp <= current.minTemp /\ current'.minTemp <= next.minTemp
                /\ current'.maxTemp \in { current.maxTemp, next.maxTemp }
                /\ current'.maxTemp >= current.maxTemp /\ current'.maxTemp >= next.maxTemp]_vars
    /\ []((pc = "done" /\ readings \in ScenarioBInputs) =>
            /\ Len(periods) = 2
            /\ periods[1].end = At(10, 10, 0)
            /\ periods[2].start = At(10, 13, 0)
            /\ Len(result) = 1
            /\ result[1].start = periods[1].start
            /\ result[1].end = periods[2].end
            /\ result[1].type = "daytime"
            /\ result[1].duration = periods[1].duration + periods[2].duration + 3)

\* C6 witness: Scenario B with two readings in each run has been merged into
\* one period of duration 2 + 2 + 3
C6_Witness ==
    /\ pc = "done"
    /\ readings = ScenarioB(2, 2)
    /\ Len(result) = 1
    /\ result[1].duration = 7

(***************************************************************************)
(* Claims about aggregateReadings (specification SpecAgg)                   *)
(***************************************************************************)
\* the start of the window of the given width that ts lies in
WindowStart(ts, minutes) == ts - (ts % (minutes * MinuteTicks))

IntervalWidth ==
    CASE interval = "1min"  -> 1
      [] interval = "5min"  -> 5
      [] interval = "30min" -> 30
      [] interval = "1hour" -> 60

\* the input readings that bucket b of the output stands for
ReadingsOfBucket(b) ==
    IF interval = "1min" THEN { b }
    ELSE { k \in DOMAIN readings :
             WindowStart(readings[k].timestamp, IntervalWidth) = aggregated[b].timestamp }

ViolationCounts == [b \in DOMAIN aggregated |-> aggregated[b].violationCount]

IsAscending(bs) == \A k \in 1..(Len(bs) - 1) : bs[k].timestamp <= bs[k + 1].timestamp

IsStrictlyAscending(bs) == \A k \in 1..(Len(bs) - 1) : bs[k].timestamp < bs[k + 1].timestamp

\* C7: for every interval, the violation counts of the buckets sum to the
\* number of non-compliant readings of the input.
C7_ViolationCountsSum ==
    pc = "aggregated" => SumSeq(ViolationCounts) = ViolationsUpTo(Len(readings))

\* C7 witness: a 5-minute aggregation into two buckets, one of them holding
\* exactly two readings, both non-compliant, beside a compliant reading elsewhere
C7_Witness ==
    /\ pc = "aggregated"
    /\ interval = "5min"
    /\ Len(aggregated) = 2
    /\ \E b \in DOMAIN aggregated :
         aggregated[b].violationCount = 2 /\ aggregated[b].totalReadings = 2
    /\ \E k \in DOMAIN readings : readings[k].isCompliant

\* C8 as stated: for every interval, 1 minute included, and every ordering
\* of the input, the buckets are in ascending order of timestamp.
C8_AscendingForEveryInterval == pc = "aggregated" => IsAscending(aggregated)

\* C8 as amended: for the 5-, 30- and 60-minute intervals and every ordering
\* of the input, the buckets are in strictly ascending order of timestamp;
\* for the 1-minute interval the buckets are in the order of the input
\* readings, so they ascend exactly when the input does.
C8_AscendingWhenBucketed ==
    pc = "aggregated" =>
        /\ interval # "1min" => IsStrictlyAscending(aggregated)
        /\ interval = "1min" =>
             /\ Len(aggregated) = Len(readings)
             /\ \A k \in DOMAIN readings : aggregated[k].timestamp = readings[k].timestamp
             /\ IsAscending(aggregated) <=> IsSorted(readings)

\* C8 witness: a 5-minute aggregation of readings given latest first, into
\* three buckets
C8_Witness ==
    /\ pc = "aggregated"
    /\ interval = "5min"
    /\ Len(readings) = 3
    /\ readings[1].timestamp > readings[2].timestamp
    /\ readings[2].timestamp > readings[3].timestamp
    /\ Len(aggregated) = 3

\* C9: a bucket is compliant exactly when its violation count is 0, which
\* is exactly when every reading it stands for is compliant.
C9_CompliantIffNoViolation ==
    pc = "aggregated" =>
        \A b \in DOMAIN aggregated :
            /\ aggregated[b].isCompliant <=> aggregated[b].violationCount = 0
            /\ aggregated[b].isCompliant <=>
                 \A k \in ReadingsOfBucket(b) : readings[k].isCompliant

\* C9 witness: a bucket of three readings, two of them compliant, is
\* non-compliant
C9_Witness ==
    /\ pc = "aggregated"
    /\ \E b \in DOMAIN aggregated :
         /\ aggregated[b].totalReadings = 3
         /\ aggregated[b].violationCount = 1
         /\ ~aggregated[b].isCompliant

\* C10: with the 1-minute interval the output has the input's length and
\* order; bucket k carries reading k's timestamp, its temperature as average,
\* minimum and maximum, one reading, and a violation count of 1 or 0.
C10_OneMinutePassThrough ==
    (pc = "aggregated" /\ interval = "1min") =>
        /\ Len(aggregated) = Len(readings)
        /\ \A k \in DOMAIN readings :
             /\ aggregated[k].timestamp = readings[k].timestamp
             /\ aggregated[k].avgTemperature = [num |-> readings[k].temperature, den |-> 1]
             /\ aggregated[k].minTemperature = readings[k].temperature
             /\ aggregated[k].maxTemperature = readings[k].temperature
             /\ aggregated[k].totalReadings = 1
             /\ aggregated[k].violationCount = IF readings[k].isCompliant THEN 0 ELSE 1

\* C10 witness: three readings, two of them within one minute and the
\* first later than the last, passed through at 1 minute
C10_Witness ==
    /\ pc = "aggregated"
    /\ interval = "1min"
    /\ Len(aggregated) = 3
    /\ readings[1].timestamp = At(22, 0, 0)
    /\ readings[2].timestamp = At(21, 59, 1)
    /\ readings[3].timestamp = At(21, 59, 1)
    /\ ~readings[2].isCompliant
    /\ readings[3].isCompliant

(***************************************************************************)
(* Outdoor temperature in the aggregated output                            *)
(***************************************************************************)
HasOutdoor(reading) == "outdoorTemp" \in DOMAIN reading

\* the outdoor temperatures present among the readings at the indices K,
\* in input order
RECURSIVE OutdoorOf(_, _)
OutdoorOf(K, k) ==
    IF k > Len(readings) THEN <<>>
    ELSE IF k \in K /\ HasOutdoor(readings[k])
         THEN <<readings[k].outdoorTemp>> \o OutdoorOf(K, k + 1)
         ELSE OutdoorOf(K, k + 1)

\* C11: for every interval and every bucket, avgOutdoorTemp is the average
\* of the outdoor temperatures present among the bucket's readings, and is
\* absent only when none of them carries one.
C11_AvgOutdoorTempPresent ==
    pc = "aggregated" =>
        \A b \in DOMAIN aggregated :
            LET outs == OutdoorOf(ReadingsOfBucket(b), 1)
            IN  IF outs = <<>>
                THEN "avgOutdoorTemp" \notin DOMAIN aggregated[b]
                ELSE /\ "avgOutdoorTemp" \in DOMAIN aggregated[b]
                     /\ aggregated[b].avgOutdoorTemp = Frac(SumSeq(outs), Len(outs))

(***************************************************************************)
(* checkCompliance (complianceChecker)                                     *)
(*                                                                         *)
(* Tick 0 is the local midnight that begins January 1 of a 365-day year.   *)
(* An optional number is a sequence: <<>> is undefined (or null), <<v>> is *)
(* the value v.                                                            *)
(***************************************************************************)
DayTicks == 24 * HourTicks

YearDays == 365

\* the days of the year before the first of each month, January first
DaysBefore == <<0, 31, 59, 90, 120, 151, 181, 212, 243, 273, 304, 334>>

\* Date.getMonth: 0 = January .. 11 = December
getMonth(ts) ==
    LET dayOfYear == (ts \div DayTicks) % YearDays
    IN  Cardinality({ m \in DOMAIN DaysBefore : DaysBefore[m] <= dayOfYear }) - 1

\* new Date(year, month, day, h, m, half-minute), month 0-based, day 1-based
DateAt(month, day, h, m, half) == (DaysBefore[month + 1] + day - 1) * DayTicks + At(h, m, half)

Undefined == <<>>

IsHeatingSeasonFromNovember(month) == month > 9 \/ month <= 4

\* const isHeatingSeason = month >= 9 || month <= 4
IsHeatingSeason(month) == month >= 9 \/ month <= 4

IsDayTimeInclusive(hour) == hour >= 6 /\ hour <= 22

\* hour >= 6 && hour < 22
IsDayTime(hour) == hour >= 6 /\ hour < 22

RequirementAppliesUpTo55(outdoorTemp) == outdoorTemp = Undefined \/ outdoorTemp[1] <= 55

\* outdoorTemp === undefined || outdoorTemp < 55
RequirementApplies(outdoorTemp) == outdoorTemp = Undefined \/ outdoorTemp[1] < 55

checkCompliance(timestamp, temperature, outdoorTemp) ==
    LET hour  == getHours(timestamp)
        month == getMonth(timestamp)
    IN  IF ~IsHeatingSeason(month)
        THEN [isCompliant |-> TRUE, requiredTemp |-> 0]
        ELSE IF IsDayTime(hour)
             THEN IF ~RequirementApplies(outdoorTemp)
                  THEN [isCompliant |-> TRUE, requiredTemp |-> 68]
                  ELSE [isCompliant |-> temperature >= 68, requiredTemp |-> 68]
             ELSE [isCompliant |-> temperature >= 62, requiredTemp |-> 62]

(***************************************************************************)
(* Specification SpecCompliance: one call of checkCompliance               *)
(***************************************************************************)
\* <<month, day>>: every month, with the first and the last day of the
\* heating season and the days next to them
ComplianceDays ==
    { <<0, 15>>, <<1, 15>>, <<2, 15>>, <<3, 15>>, <<4, 1>>, <<4, 31>>,
      <<5, 1>>, <<5, 15>>, <<6, 15>>, <<7, 15>>, <<8, 15>>, <<8, 30>>,
      <<9, 1>>, <<9, 15>>, <<10, 15>>, <<11, 31>> }

\* both sides of 6:00 and of 22:00, midnight, noon and the day's last tick
ComplianceTimes ==
    { At(0, 0, 0), At(5, 59, 1), At(6, 0, 0), At(12, 0, 0), At(21, 59, 1),
      At(22, 0, 0), At(23, 59, 1) }

ComplianceTimestamps ==
    { DateAt(d[1], d[2], 0, 0, 0) + t : d \in ComplianceDays, t \in ComplianceTimes }

IndoorTemps == { 61, 62, 67, 68 }

OutdoorArgs == { Undefined, <<54>>, <<55>>, <<70>> }

\* the aggregation and period pipeline is not running
NoPipeline ==
    /\ readings = <<>>
    /\ gapToleranceMinutes = DefaultGapTolerance
    /\ i = 0
    /\ currentPeriod = NoPeriod
    /\ periods = <<>>
    /\ mi = 0
    /\ current = NoAccumulator
    /\ merged = <<>>
    /\ result = <<>>
    /\ again = <<>>
    /\ interval = "none"
    /\ aggregated = <<>>

InitCompliance ==
    \E ts \in ComplianceTimestamps, temp \in IndoorTemps, out \in OutdoorArgs :
        /\ pc = "checkCompliance"
        /\ args = [timestamp |-> ts, temperature |-> temp, outdoorTemp |-> out]
        /\ returned = <<>>
        /\ NoPipeline
        /\ NoDerived
        /\ PageConstructed

CheckCompliance ==
    /\ pc = "checkCompliance"
    /\ returned' = checkCompliance(args.timestamp, args.temperature, args.outdoorTemp)
    /\ pc' = "checked"
    /\ UNCHANGED <<args, readings, gapToleranceMinutes, i, currentPeriod, periods, mi,
                   current, merged, result, again, interval, aggregated>>
    /\ UNCHANGED <<derivedVars, pageVars>>

NextCompliance == CheckCompliance

SpecCompliance == InitCompliance /\ [][NextCompliance]_vars

\* the 0-based month indices of June, July, August and September
JuneToSeptember == { 5, 6, 7, 8 }

\* the local hours of [6, 22)
DayHours == 6..21

\* C12: in June to September checkCompliance returns compliant with required
\* temperature 0 for every hour, indoor and outdoor temperature; in October
\* to May the required temperature is 68 or 62, never 0.
C12_SeasonGate ==
    pc = "checked" =>
        IF getMonth(args.timestamp) \in JuneToSeptember
        THEN returned = [isCompliant |-> TRUE, requiredTemp |-> 0]
        ELSE returned.requiredTemp \in { 68, 62 }

\* C12 witness: September 30 at noon, indoor 61 with outdoor 54, is compliant
\* with required temperature 0, and so is June 1 at midnight
C12_Witness ==
    /\ pc = "checked"
    /\ args.timestamp \in { DateAt(8, 30, 12, 0, 0), DateAt(5, 1, 0, 0, 0) }
    /\ args.temperature = 61
    /\ args.outdoorTemp = <<54>>
    /\ returned.isCompliant
    /\ returned.requiredTemp = 0

\* C13: in the heating season between 6:00 and 22:00 the required
\* temperature is 68; the call is compliant iff indoor >= 68 when the outdoor
\* temperature is absent or below 55, and compliant whatever the indoor
\* temperature when the outdoor temperature is 55 or more.
C13_DaytimeRule ==
    (/\ pc = "checked"
     /\ getMonth(args.timestamp) \notin JuneToSeptember
     /\ getHours(args.timestamp) \in DayHours) =>
        /\ returned.requiredTemp = 68
        /\ IF args.outdoorTemp = <<>> \/ args.outdoorTemp[1] < 55
           THEN returned.isCompliant <=> args.temperature >= 68
           ELSE returned.isCompliant

\* C13 witness: October 1 at 21:59:30, indoor 67 and outdoor exactly 55:
\* waived, compliant, required temperature 68
C13_Witness ==
    /\ pc = "checked"
    /\ args.timestamp = DateAt(9, 1, 21, 59, 1)
    /\ args.temperature = 67
    /\ args.outdoorTemp = <<55>>
    /\ returned = [isCompliant |-> TRUE, requiredTemp |-> 68]

\* C14: in the heating season from 22:00 to 6:00 the required temperature is
\* 62 and the call is compliant iff indoor >= 62, for every outdoor
\* temperature, absent or present, 55 and above included.
C14_NighttimeRule ==
    (/\ pc = "checked"
     /\ getMonth(args.timestamp) \notin JuneToSeptember
     /\ getHours(args.timestamp) \notin DayHours) =>
        /\ returned.requiredTemp = 62
        /\ returned.isCompliant <=> args.temperature >= 62

\* C14 witness: May 31 at 22:00:00, indoor 61 and outdoor 70: not compliant,
\* required temperature 62
C14_Witness ==
    /\ pc = "checked"
    /\ args.timestamp = DateAt(4, 31, 22, 0, 0)
    /\ args.temperature = 61
    /\ args.outdoorTemp = <<70>>
    /\ returned = [isCompliant |-> FALSE, requiredTemp |-> 62]

(***************************************************************************)
(* classifyRadiatorState (csvParser)                                       *)
(*                                                                         *)
(* Radiator temperatures are in tenths of a degree, so the change          *)
(* threshold 0.3 is 3 and a difference of two readings is exact.           *)
(***************************************************************************)
Deg(d) == 10 * d

OFF_THRESHOLD == Deg(70)

TEMP_CHANGE_THRESHOLD == 3

Null == <<>>

classifyTrendBeforeOff(currentTemp, previousTemp, nextTemp) ==
    IF previousTemp # Null /\ currentTemp - previousTemp[1] > TEMP_CHANGE_THRESHOLD
    THEN "on"
    ELSE IF previousTemp # Null /\ currentTemp - previousTemp[1] < -TEMP_CHANGE_THRESHOLD
    THEN "cooling"
    ELSE IF nextTemp # Null /\ nextTemp[1] - currentTemp > TEMP_CHANGE_THRESHOLD
    THEN "on"
    ELSE IF nextTemp # Null /\ nextTemp[1] - currentTemp < -TEMP_CHANGE_THRESHOLD
    THEN "cooling"
    ELSE IF currentTemp < OFF_THRESHOLD
    THEN "off"
    ELSE IF currentTemp >= Deg(90) THEN "on" ELSE "cooling"

classifyNextBeforePrevious(currentTemp, previousTemp, nextTemp) ==
    IF currentTemp < OFF_THRESHOLD
    THEN "off"
    ELSE IF nextTemp # Null /\ nextTemp[1] - currentTemp > TEMP_CHANGE_THRESHOLD
    THEN "on"
    ELSE IF nextTemp # Null /\ nextTemp[1] - currentTemp < -TEMP_CHANGE_THRESHOLD
    THEN "cooling"
    ELSE IF previousTemp # Null /\ currentTemp - previousTemp[1] > TEMP_CHANGE_THRESHOLD
    THEN "on"
    ELSE IF previousTemp # Null /\ currentTemp - previousTemp[1] < -TEMP_CHANGE_THRESHOLD
    THEN "cooling"
    ELSE IF currentTemp >= Deg(90) THEN "on" ELSE "cooling"

classifyChangeInclusive(currentTemp, previousTemp, nextTemp) ==
    IF currentTemp < OFF_THRESHOLD
    THEN "off"
    ELSE IF previousTemp # Null /\ currentTemp - previousTemp[1] >= TEMP_CHANGE_THRESHOLD
    THEN "on"
    ELSE IF previousTemp # Null /\ currentTemp - previousTemp[1] <= -TEMP_CHANGE_THRESHOLD
    THEN "cooling"
    ELSE IF nextTemp # Null /\ nextTemp[1] - currentTemp >= TEMP_CHANGE_THRESHOLD
    THEN "on"
    ELSE IF nextTemp # Null /\ nextTemp[1] - currentTemp <= -TEMP_CHANGE_THRESHOLD
    THEN "cooling"
    ELSE IF currentTemp >= Deg(90) THEN "on" ELSE "cooling"

\* each early return is one branch, in the code's order
classifyRadiatorState(currentTemp, previousTemp, nextTemp) ==
    IF currentTemp < OFF_THRESHOLD
    THEN "off"
    ELSE IF previousTemp # Null /\ currentTemp - previousTemp[1] > TEMP_CHANGE_THRESHOLD
    THEN "on"
    ELSE IF previousTemp # Null /\ currentTemp - previousTemp[1] < -TEMP_CHANGE_THRESHOLD
    THEN "cooling"
    ELSE IF nextTemp # Null /\ nextTemp[1] - currentTemp > TEMP_CHANGE_THRESHOLD
    THEN "on"
    ELSE IF nextTemp # Null /\ nextTemp[1] - currentTemp < -TEMP_CHANGE_THRESHOLD
    THEN "cooling"
    ELSE IF currentTemp >= Deg(90) THEN "on" ELSE "cooling"

(***************************************************************************)
(* Specification SpecRadiator: one call of classifyRadiatorState           *)
(***************************************************************************)
\* 64.0 .. 95.0: below and at the off threshold, changes of exactly 0.3 and
\* of 0.4 above it, both sides of 90, and the temperatures of the spec's
\* examples
RadiatorTemps == { 640, 650, 660, 699, 700, 703, 704, 896, 900, 940, 945, 950 }

NeighbourTemps == { Null } \cup { <<t>> : t \in RadiatorTemps }

InitRadiator ==
    \E cur \in RadiatorTemps, prev \in NeighbourTemps, next \in NeighbourTemps :
        /\ pc = "classifyRadiatorState"
        /\ args = [currentTemp |-> cur, previousTemp |-> prev, nextTemp |-> next]
        /\ returned = <<>>
        /\ NoPipeline
        /\ NoDerived
        /\ PageConstructed

ClassifyRadiatorState ==
    /\ pc = "classifyRadiatorState"
    /\ returned' = classifyRadiatorState(args.currentTemp, args.previousTemp, args.nextTemp)
    /\ pc' = "classified"
    /\ UNCHANGED <<args, readings, gapToleranceMinutes, i, currentPeriod, periods, mi,
                   current, merged, result, again, interval, aggregated>>
    /\ UNCHANGED <<derivedVars, pageVars>>

NextRadiator == ClassifyRadiatorState

SpecRadiator == InitRadiator /\ [][NextRadiator]_vars

\* C15: a current temperature below 70 is classified "off" whatever the
\* previous and next temperatures are, present or absent, rising or falling.
C15_OffBelowThreshold ==
    (pc = "classified" /\ args.currentTemp < 700) => returned = "off"

\* C15 witness: current 65 between previous 64 and next 66 is "off"
C15_Witness ==
    /\ pc = "classified"
    /\ args = [currentTemp |-> 650, previousTemp |-> <<640>>, nextTemp |-> <<660>>]
    /\ returned = "off"

\* C16: at 70 or more with a previous temperature, a rise of more than 0.3
\* from the previous temperature gives "on" and a fall of more than 0.3 gives
\* "cooling", whatever the next temperature is.
C16_PreviousDeltaFirst ==
    (pc = "classified" /\ args.currentTemp >= 700 /\ args.previousTemp # <<>>) =>
        /\ args.currentTemp - args.previousTemp[1] > 3 => returned = "on"
        /\ args.currentTemp - args.previousTemp[1] < -3 => returned = "cooling"

\* C16 witness: current 95 after 94.5 and before 94.0 is "on"
C16_Witness ==
    /\ pc = "classified"
    /\ args = [currentTemp |-> 950, previousTemp |-> <<945>>, nextTemp |-> <<940>>]
    /\ returned = "on"

(***************************************************************************)
(* getOutdoorTempForTimestamp (weatherApi)                                 *)
(***************************************************************************)
MaxPairs == 4

OutdoorPair(ts, temp) == [timestamp |-> ts, temperature |-> temp]

WithinHourExclusive(minDiff) == minDiff < HourTicks

\* minDiff <= 3600000
WithinHour(minDiff) == minDiff <= HourTicks

\* the while loop, from its state at the loop test; indices are 1-based
RECURSIVE ClosestSearch(_, _, _, _, _, _)
ClosestSearch(timestamp, outdoorReadings, left, right, closest, minDiff) ==
    IF left > right THEN [closest |-> closest, minDiff |-> minDiff]
    ELSE LET mid     == (left + right) \div 2
             diff    == Abs(timestamp - outdoorReadings[mid].timestamp)
             better  == diff < minDiff
             closer  == IF better THEN outdoorReadings[mid] ELSE closest
             smaller == IF better THEN diff ELSE minDiff
         IN  IF outdoorReadings[mid].timestamp < timestamp
             THEN ClosestSearch(timestamp, outdoorReadings, mid + 1, right, closer, smaller)
             ELSE ClosestSearch(timestamp, outdoorReadings, left, mid - 1, closer, smaller)

getOutdoorTempForTimestamp(timestamp, outdoorReadings) ==
    IF Len(outdoorReadings) = 0 THEN Null
    ELSE LET found == ClosestSearch(timestamp, outdoorReadings, 1, Len(outdoorReadings),
                                    outdoorReadings[1],
                                    Abs(timestamp - outdoorReadings[1].timestamp))
         IN  IF WithinHour(found.minDiff) THEN <<found.closest.temperature>> ELSE Null

(***************************************************************************)
(* Specification SpecOutdoor: one call of getOutdoorTempForTimestamp       *)
(***************************************************************************)
\* hourly pairs with a missing hour
OutdoorTimes == { At(8, 0, 0), At(9, 0, 0), At(10, 0, 0), At(12, 0, 0) }

OutdoorPairs == { OutdoorPair(ts, temp) : ts \in OutdoorTimes, temp \in OutdoorTemps }

\* sorted ascending by timestamp, as the fetch delivers them
OutdoorSequences == { ps \in SeqsUpTo(OutdoorPairs, MaxPairs) : IsSorted(ps) }

\* more than, exactly and less than 60 minutes from the first and the last
\* pair, on a pair, halfway between two pairs and inside the missing hour
LookupTimes ==
    { At(6, 59, 1), At(7, 0, 0), At(8, 0, 0), At(8, 30, 0), At(9, 29, 1),
      At(11, 0, 0), At(11, 0, 1), At(13, 0, 0), At(13, 0, 1) }

InitOutdoor ==
    \E ts \in LookupTimes, ps \in OutdoorSequences :
        /\ pc = "getOutdoorTempForTimestamp"
        /\ args = [timestamp |-> ts, outdoorReadings |-> ps]
        /\ returned = <<>>
        /\ NoPipeline
        /\ NoDerived
        /\ PageConstructed

GetOutdoorTempForTimestamp ==
    /\ pc = "getOutdoorTempForTimestamp"
    /\ returned' = getOutdoorTempForTimestamp(args.timestamp, args.outdoorReadings)
    /\ pc' = "lookedUp"
    /\ UNCHANGED <<args, readings, gapToleranceMinutes, i, currentPeriod, periods, mi,
                   current, merged, result, again, interval, aggregated>>
    /\ UNCHANGED <<derivedVars, pageVars>>

NextOutdoor == GetOutdoorTempForTimestamp

SpecOutdoor == InitOutdoor /\ [][NextOutdoor]_vars

\* the distance in ticks from the looked-up timestamp to pair k
Distance(k) == Abs(args.timestamp - args.outdoorReadings[k].timestamp)

\* the least distance over the whole sequence, which is not empty
LeastDistance ==
    CHOOSE d \in { Distance(k) : k \in DOMAIN args.outdoorReadings } :
        \A k \in DOMAIN args.outdoorReadings : d <= Distance(k)

\* C17: on a sorted non-empty sequence the lookup returns the temperature of
\* a pair at the least distance from the timestamp when that distance is at
\* most 60 minutes, and null when it is more; on an empty sequence it
\* returns null.
C17_NearestWithinHour ==
    pc = "lookedUp" =>
        IF args.outdoorReadings = <<>>
        THEN returned = <<>>
        ELSE IF LeastDistance <= 60 * MinuteTicks
             THEN \E k \in DOMAIN args.outdoorReadings :
                      /\ Distance(k) = LeastDistance
                      /\ returned = <<args.outdoorReadings[k].temperature>>
             ELSE returned = <<>>

\* C17 witness: of four pairs the last one, exactly 60 minutes before the
\* timestamp, is the nearest and its temperature is returned
C17_Witness ==
    /\ pc = "lookedUp"
    /\ args.timestamp = At(13, 0, 0)
    /\ Len(args.outdoorReadings) = 4
    /\ args.outdoorReadings[1].temperature = 50
    /\ args.outdoorReadings[2].temperature = 50
    /\ args.outdoorReadings[3] = OutdoorPair(At(10, 0, 0), 50)
    /\ args.outdoorReadings[4] = OutdoorPair(At(12, 0, 0), 57)
    /\ returned = <<57>>

(***************************************************************************)
(* page.tsx: loadData and the readings the page derives                    *)
(*                                                                         *)
(* A CSV row is a valid row, already split into timestamp, temperature and *)
(* humidity. returned holds how the awaited outdoor fetch settled.         *)
(***************************************************************************)
CsvRow(ts, temp, hum) == [timestamp |-> ts, temperature |-> temp, humidity |-> hum]

\* the map callback of parseTemperatureCSV: compliance without outdoor data
ParsedReading(row) ==
    LET compliance == checkCompliance(row.timestamp, row.temperature, Undefined)
    IN  [timestamp    |-> row.timestamp,
         temperature  |-> row.temperature,
         humidity     |-> row.humidity,
         isCompliant  |-> compliance.isCompliant,
         requiredTemp |-> compliance.requiredTemp]

\* map, then sort by timestamp
parseTemperatureCSV(rows) == SortByTimestamp([k \in DOMAIN rows |-> ParsedReading(rows[k])])

EnrichedReadingDefaultMild(reading, outdoorData) ==
    LET outdoorTemp == getOutdoorTempForTimestamp(reading.timestamp, outdoorData)
        assumed     == IF outdoorTemp = Null THEN <<55>> ELSE outdoorTemp
        compliance  == checkCompliance(reading.timestamp, reading.temperature, assumed)
    IN  [timestamp    |-> reading.timestamp,
         temperature  |-> reading.temperature,
         humidity     |-> reading.humidity,
         isCompliant  |-> compliance.isCompliant,
         requiredTemp |-> compliance.requiredTemp]

\* the map callback of loadData; outdoorTemp: undefined is the field's absence
EnrichedReading(reading, outdoorData) ==
    LET outdoorTemp == getOutdoorTempForTimestamp(reading.timestamp, outdoorData)
        compliance  == checkCompliance(reading.timestamp, reading.temperature,
                                       IF outdoorTemp = Null THEN Undefined ELSE outdoorTemp)
        enriched    == [timestamp    |-> reading.timestamp,
                        temperature  |-> reading.temperature,
                        humidity     |-> reading.humidity,
                        isCompliant  |-> compliance.isCompliant,
                        requiredTemp |-> compliance.requiredTemp]
    IN  IF outdoorTemp = Null
        THEN enriched
        ELSE [timestamp    |-> reading.timestamp,
              temperature  |-> reading.temperature,
              humidity     |-> reading.humidity,
              outdoorTemp  |-> outdoorTemp[1],
              isCompliant  |-> compliance.isCompliant,
              requiredTemp |-> compliance.requiredTemp]

startOfDay(ts) == (ts \div DayTicks) * DayTicks

\* the last instant of the day, which no timestamp of that day exceeds
endOfDay(ts) == startOfDay(ts) + DayTicks - 1

isWithinInterval(ts, range) == range.from <= ts /\ ts <= range.to

\* the readings useMemo: allReadings filtered by the date range
PageReadings ==
    IF dateRange = Null THEN allReadings
    ELSE SelectSeq(allReadings, LAMBDA r : isWithinInterval(r.timestamp, dateRange[1]))

(***************************************************************************)
(* Specification SpecPage: loadData, one action per settled await          *)
(***************************************************************************)
\* a heating-season day at noon and at 22:00, and a July day at noon
CsvTimes == { DateAt(0, 1, 12, 0, 0), DateAt(0, 1, 22, 0, 0), DateAt(6, 15, 12, 0, 0) }

CsvRows == { CsvRow(ts, temp, 40) : ts \in CsvTimes, temp \in { 67, 68 } }

CsvInputs == SeqsUpTo(CsvRows, MaxLen - 1)

RadiatorFiles ==
    { <<>>,
      <<[timestamp   |-> DateAt(0, 1, 12, 0, 0),
         temperature |-> Deg(95),
         state       |-> classifyRadiatorState(Deg(95), Null, Null)]>> }

\* what the weather service may answer: nothing, a mild or a cold noon, or
\* mild hours next to the readings
OutdoorFetches ==
    { <<>>,
      <<OutdoorPair(DateAt(0, 1, 12, 0, 0), 57)>>,
      <<OutdoorPair(DateAt(0, 1, 12, 0, 0), 50)>>,
      <<OutdoorPair(DateAt(0, 1, 11, 0, 0), 57), OutdoorPair(DateAt(0, 1, 22, 0, 0), 57)>> }

InitPage ==
    /\ pc = "loadTemperatureData"
    /\ NoCall
    /\ NoPipeline
    /\ NoDerived
    /\ PageConstructed

\* await loadTemperatureData() resolves; an empty file ends loadData
LoadTemperatureResolved ==
    /\ pc = "loadTemperatureData"
    /\ \E rows \in CsvInputs : indoorData' = parseTemperatureCSV(rows)
    /\ IF Len(indoorData') = 0
       THEN /\ error' = <<"No temperature data available">>
            /\ loading' = FALSE
            /\ pc' = "returned"
       ELSE /\ pc' = "loadRadiatorData"
            /\ UNCHANGED <<error, loading>>
    /\ UNCHANGED <<allReadings, allRadiatorReadings, dateRange, outdoorDataLoading>>
    /\ UNCHANGED <<readings, gapToleranceMinutes, i, currentPeriod, periods, mi,
                   current, merged, result, again, interval, aggregated>>
    /\ UNCHANGED <<callVars, derivedVars>>

\* await loadTemperatureData() rejects: the outer catch
LoadTemperatureRejected ==
    /\ pc = "loadTemperatureData"
    /\ error' = <<"Failed to load temperature data">>
    /\ loading' = FALSE
    /\ pc' = "returned"
    /\ UNCHANGED <<indoorData, allReadings, allRadiatorReadings, dateRange,
                   outdoorDataLoading>>
    /\ UNCHANGED <<readings, gapToleranceMinutes, i, currentPeriod, periods, mi,
                   current, merged, result, again, interval, aggregated>>
    /\ UNCHANGED <<callVars, derivedVars>>

\* after the radiator try/catch, up to await fetchOutdoorTemperature(...)
StartOutdoorFetch ==
    LET startDate == startOfDay(indoorData[1].timestamp)
        endDate   == endOfDay(indoorData[Len(indoorData)].timestamp)
    IN  /\ dateRange' = <<[from |-> startDate, to |-> endDate]>>
        /\ outdoorDataLoading' = TRUE
        /\ args' = [startDate |-> startDate, endDate |-> endDate]
        /\ pc' = "fetchOutdoorTemperature"
        /\ UNCHANGED <<indoorData, allReadings, loading, error, returned>>
        /\ UNCHANGED <<readings, gapToleranceMinutes, i, currentPeriod, periods, mi,
                       current, merged, result, again, interval, aggregated>>
        /\ UNCHANGED derivedVars

\* await loadRadiatorData() resolves
LoadRadiatorResolved ==
    /\ pc = "loadRadiatorData"
    /\ \E radiatorData \in RadiatorFiles : allRadiatorReadings' = radiatorData
    /\ StartOutdoorFetch

\* await loadRadiatorData() rejects: "Continue without radiator data"
LoadRadiatorRejected ==
    /\ pc = "loadRadiatorData"
    /\ UNCHANGED allRadiatorReadings
    /\ StartOutdoorFetch

FinishLoadKeepingFlag ==
    /\ UNCHANGED outdoorDataLoading
    /\ loading' = FALSE
    /\ pc' = "loaded"
    /\ UNCHANGED <<indoorData, allRadiatorReadings, error, dateRange, args>>
    /\ UNCHANGED <<readings, gapToleranceMinutes, i, currentPeriod, periods, mi,
                   current, merged, result, again, interval, aggregated>>
    /\ UNCHANGED derivedVars

\* the finally block and the statement after it
FinishLoad ==
    /\ outdoorDataLoading' = FALSE
    /\ loading' = FALSE
    /\ pc' = "loaded"
    /\ UNCHANGED <<indoorData, allRadiatorReadings, error, dateRange, args>>
    /\ UNCHANGED <<readings, gapToleranceMinutes, i, currentPeriod, periods, mi,
                   current, merged, result, again, interval, aggregated>>
    /\ UNCHANGED derivedVars

\* await fetchOutdoorTemperature(...) resolves: enrich every indoor reading
FetchOutdoorResolved ==
    /\ pc = "fetchOutdoorTemperature"
    /\ \E outdoorData \in OutdoorFetches :
         /\ allReadings' = [k \in DOMAIN indoorData |->
                               EnrichedReading(indoorData[k], outdoorData)]
         /\ returned' = [status |-> "resolved", value |-> outdoorData]
    /\ FinishLoad

\* await fetchOutdoorTemperature(...) rejects: "Continue with indoor data only"
FetchOutdoorRejected ==
    /\ pc = "fetchOutdoorTemperature"
    /\ allReadings' = indoorData
    /\ returned' = [status |-> "rejected", value |-> <<>>]
    /\ FinishLoad

NextPage ==
    \/ LoadTemperatureResolved
    \/ LoadTemperatureRejected
    \/ LoadRadiatorResolved
    \/ LoadRadiatorRejected
    \/ FetchOutdoorResolved
    \/ FetchOutdoorRejected

SpecPage == InitPage /\ [][NextPage]_vars

\* the outdoor fetch failed, or succeeded with no pairs
OutdoorUnavailable ==
    /\ pc = "loaded"
    /\ returned.status = "rejected" \/ returned.value = <<>>

\* C18: when the outdoor fetch fails or brings no pairs, every reading the
\* page hands to the statistics, the aggregation and the period extraction
\* has no outdoor temperature and carries the flag and required temperature
\* of checkCompliance with the outdoor temperature unknown; a heating-season
\* daytime reading is held to 68.
C18_IndoorOnlyMode ==
    OutdoorUnavailable =>
        /\ Len(PageReadings) = Len(indoorData)
        /\ \A k \in DOMAIN PageReadings :
             LET reading  == PageReadings[k]
                 expected == checkCompliance(reading.timestamp, reading.temperature, <<>>)
             IN  /\ "outdoorTemp" \notin DOMAIN reading
                 /\ reading.isCompliant = expected.isCompliant
                 /\ reading.requiredTemp = expected.requiredTemp
                 /\ (/\ getMonth(reading.timestamp) \notin JuneToSeptember
                     /\ getHours(reading.timestamp) \in DayHours) =>
                        /\ reading.requiredTemp = 68
                        /\ reading.isCompliant <=> reading.temperature >= 68

\* C18 witness: the fetch brought no pairs; a January noon reading of 67 is
\* held to 68 and is not compliant
C18_Witness ==
    /\ pc = "loaded"
    /\ returned = [status |-> "resolved", value |-> <<>>]
    /\ Len(PageReadings) = 2
    /\ PageReadings[1].timestamp = DateAt(0, 1, 12, 0, 0)
    /\ PageReadings[1].temperature = 67
    /\ ~PageReadings[1].isCompliant
    /\ PageReadings[1].requiredTemp = 68

(***************************************************************************)
(* groupViolationsByDay (dataAggregator)                                   *)
(*                                                                         *)
(* dayMap is a sequence of [key, periods] entries in insertion order; a    *)
(* day's key is the instant of its local midnight, which toISOString and   *)
(* new Date(dateStr) carry unchanged.                                      *)
(***************************************************************************)
DayKeyOfEnd(period) == startOfDay(period.end)

DayKey(period) == startOfDay(period.start)

HasDay(dayMap, dayKey) == \E d \in DOMAIN dayMap : dayMap[d].key = dayKey

\* dayMap.set(dayKey, []) when the key is new, then push
AddToDay(dayMap, dayKey, period) ==
    IF HasDay(dayMap, dayKey)
    THEN [d \in DOMAIN dayMap |->
            IF dayMap[d].key = dayKey
            THEN [key |-> dayKey, periods |-> Append(dayMap[d].periods, period)]
            ELSE dayMap[d]]
    ELSE Append(dayMap, [key |-> dayKey, periods |-> <<period>>])

RECURSIVE GroupPeriods(_, _, _)
GroupPeriods(ps, k, dayMap) ==
    IF k > Len(ps) THEN dayMap
    ELSE GroupPeriods(ps, k + 1, AddToDay(dayMap, DayKey(ps[k]), ps[k]))

InsertByStart(sorted, x) ==
    LET n == Cardinality({ k \in DOMAIN sorted : sorted[k].start <= x.start })
    IN  SubSeq(sorted, 1, n) \o <<x>> \o SubSeq(sorted, n + 1, Len(sorted))

RECURSIVE SortByStartLoop(_, _, _)
SortByStartLoop(ps, k, sorted) ==
    IF k > Len(ps) THEN sorted ELSE SortByStartLoop(ps, k + 1, InsertByStart(sorted, ps[k]))

\* dayPeriods.sort((a, b) => a.start.getTime() - b.start.getTime())
SortByStart(ps) == SortByStartLoop(ps, 1, <<>>)

InsertByDateDescending(sorted, x) ==
    LET n == Cardinality({ k \in DOMAIN sorted : sorted[k].date >= x.date })
    IN  SubSeq(sorted, 1, n) \o <<x>> \o SubSeq(sorted, n + 1, Len(sorted))

RECURSIVE SortByDateLoop(_, _, _)
SortByDateLoop(ds, k, sorted) ==
    IF k > Len(ds) THEN sorted
    ELSE SortByDateLoop(ds, k + 1, InsertByDateDescending(sorted, ds[k]))

\* dayViolations.sort((a, b) => b.date.getTime() - a.date.getTime())
SortByDateDescending(ds) == SortByDateLoop(ds, 1, <<>>)

groupViolationsByDay(ps) ==
    LET dayMap == GroupPeriods(ps, 1, <<>>)
    IN  SortByDateDescending(
            [d \in DOMAIN dayMap |->
                [date |-> dayMap[d].key, periods |-> SortByStart(dayMap[d].periods)]])

(***************************************************************************)
(* calculateComplianceStats (complianceChecker)                            *)
(***************************************************************************)
\* NaN
NaN == [num |-> 0, den |-> 0]

IsDayHourInclusive(hour) == hour >= 6 /\ hour <= 22

\* hour >= 6 && hour < 22
IsDayHour(hour) == hour >= 6 /\ hour < 22

\* compliantReadings++
CompliantCount(rs) == Cardinality({ k \in DOMAIN rs : rs[k].isCompliant })

\* dayTimeViolations++
DayTimeViolationCount(rs) ==
    Cardinality({ k \in DOMAIN rs :
                    ~rs[k].isCompliant /\ IsDayHour(getHours(rs[k].timestamp)) })

\* nightTimeViolations++
NightTimeViolationCount(rs) ==
    Cardinality({ k \in DOMAIN rs :
                    ~rs[k].isCompliant /\ ~IsDayHour(getHours(rs[k].timestamp)) })

ComplianceRateUnguarded(compliantReadings, totalReadings) ==
    IF totalReadings = 0 THEN NaN ELSE Frac(compliantReadings * 100, totalReadings)

\* totalReadings > 0 ? (compliantReadings / totalReadings) * 100 : 0
ComplianceRate(compliantReadings, totalReadings) ==
    IF totalReadings > 0 THEN Frac(compliantReadings * 100, totalReadings) ELSE Frac(0, 1)

calculateComplianceStats(rs) ==
    LET totalReadings       == Len(rs)
        compliantReadings   == CompliantCount(rs)
        dayTimeViolations   == DayTimeViolationCount(rs)
        nightTimeViolations == NightTimeViolationCount(rs)
        violationReadings   == totalReadings - compliantReadings
    IN  [totalReadings       |-> totalReadings,
         compliantReadings   |-> compliantReadings,
         violationReadings   |-> violationReadings,
         complianceRate      |-> ComplianceRate(compliantReadings, totalReadings),
         dayTimeViolations   |-> dayTimeViolations,
         nightTimeViolations |-> nightTimeViolations,
         totalViolationHours |-> Frac(violationReadings, 60)]

(***************************************************************************)
(* identifyViolationPeriods as one call                                    *)
(***************************************************************************)
\* readings.forEach, from reading k on
RECURSIVE ScanLoop(_, _, _, _)
ScanLoop(rs, k, cp, ps) ==
    IF k > Len(rs) THEN FinalizeOpen(cp, ps)
    ELSE LET st == ScanReading(cp, ps, rs[k])
         IN  ScanLoop(rs, k + 1, st.currentPeriod, st.periods)

identifyViolationPeriods(rs, tol) ==
    mergeCloseViolationPeriods(ScanLoop(rs, 1, NoPeriod, <<>>), tol)

(***************************************************************************)
(* Specification SpecDerive: the periods, day groups, statistics and       *)
(* buckets computed from one reading sequence                              *)
(***************************************************************************)
\* both sides of 22:00 on January 1, and the next morning before 6:00
DeriveTimestamps ==
    { At(21, 59, 1), At(22, 0, 0), At(22, 5, 0), DateAt(0, 2, 5, 59, 1) }

DeriveInputs == { rs \in SeqsUpTo(ReadingsAt(DeriveTimestamps), MaxLen) : IsSorted(rs) }

InitDerive ==
    \E rs \in DeriveInputs :
        /\ readings = rs
        /\ gapToleranceMinutes = DefaultGapTolerance
        /\ pc = "identifyViolationPeriods"
        /\ i = 0
        /\ currentPeriod = NoPeriod
        /\ periods = <<>>
        /\ mi = 0
        /\ current = NoAccumulator
        /\ merged = <<>>
        /\ result = <<>>
        /\ again = <<>>
        /\ interval = "none"
        /\ aggregated = <<>>
        /\ NoCall
        /\ NoDerived
        /\ PageConstructed

IdentifyViolationPeriods ==
    /\ pc = "identifyViolationPeriods"
    /\ result' = identifyViolationPeriods(readings, gapToleranceMinutes)
    /\ pc' = "identified"
    /\ UNCHANGED <<readings, gapToleranceMinutes, i, currentPeriod, periods, mi,
                   current, merged, again, interval, aggregated>>
    /\ UNCHANGED <<derivedVars, callVars, pageVars>>

GroupViolationsByDay ==
    /\ pc = "identified"
    /\ dayViolations' = groupViolationsByDay(result)
    /\ pc' = "grouped"
    /\ UNCHANGED <<readings, gapToleranceMinutes, i, currentPeriod, periods, mi,
                   current, merged, result, again, interval, aggregated>>
    /\ UNCHANGED <<stats, callVars, pageVars>>

CalculateComplianceStats ==
    /\ pc = "grouped"
    /\ stats' = calculateComplianceStats(readings)
    /\ pc' = "stats"
    /\ UNCHANGED <<readings, gapToleranceMinutes, i, currentPeriod, periods, mi,
                   current, merged, result, again, interval, aggregated>>
    /\ UNCHANGED <<dayViolations, callVars, pageVars>>

AggregateReadings ==
    /\ pc = "stats"
    /\ \E iv \in Intervals :
         /\ interval' = iv
         /\ aggregated' = aggregateReadings(readings, iv)
    /\ pc' = "derived"
    /\ UNCHANGED <<readings, gapToleranceMinutes, i, currentPeriod, periods, mi,
                   current, merged, result, again>>
    /\ UNCHANGED <<derivedVars, callVars, pageVars>>

NextDerive ==
    \/ IdentifyViolationPeriods
    \/ GroupViolationsByDay
    \/ CalculateComplianceStats
    \/ AggregateReadings

SpecDerive == InitDerive /\ [][NextDerive]_vars

Zero == Frac(0, 1)

ZeroStats ==
    [totalReadings       |-> 0,
     compliantReadings   |-> 0,
     violationReadings   |-> 0,
     complianceRate      |-> Zero,
     dayTimeViolations   |-> 0,
     nightTimeViolations |-> 0,
     totalViolationHours |-> Zero]

\* C19: on an empty reading sequence identifyViolationPeriods returns an
\* empty list, aggregateReadings returns an empty list for every interval
\* and calculateComplianceStats returns seven zeros, the compliance rate
\* among them; groupViolationsByDay of an empty period list is empty.
C19_EmptyInputNeutral ==
    /\ (readings = <<>> /\ pc \in { "identified", "grouped", "stats", "derived" }) =>
           result = <<>>
    /\ (result = <<>> /\ pc \in { "grouped", "stats", "derived" }) =>
           dayViolations = <<>>
    /\ (readings = <<>> /\ pc \in { "stats", "derived" }) => stats = ZeroStats
    /\ (readings = <<>> /\ pc = "derived") => aggregated = <<>>

\* C19 witness: no readings, and all four functions have returned, the
\* aggregation for the 1-hour interval
C19_Witness ==
    /\ readings = <<>>
    /\ pc = "derived"
    /\ interval = "1hour"
    /\ result = <<>>
    /\ dayViolations = <<>>
    /\ stats.complianceRate = Zero
    /\ aggregated = <<>>

\* x / y as JavaScript divides: 0 / 0 is NaN
Divide(x, y) == IF y = 0 THEN NaN ELSE Frac(x, y)

NonCompliantAt(DayOrNight(_)) ==
    Cardinality({ k \in DOMAIN readings :
                    ~readings[k].isCompliant /\ DayOrNight(getHours(readings[k].timestamp)) })

\* what C20 says of every field but the compliance rate
StatsCounts ==
    /\ stats.totalReadings = Len(readings)
    /\ stats.compliantReadings + stats.violationReadings = stats.totalReadings
    /\ stats.dayTimeViolations + stats.nightTimeViolations = stats.violationReadings
    /\ stats.dayTimeViolations = NonCompliantAt(LAMBDA hour : hour \in DayHours)
    /\ stats.nightTimeViolations = NonCompliantAt(LAMBDA hour : hour \notin DayHours)
    /\ stats.totalViolationHours = Divide(stats.violationReadings, 60)

\* C20 as stated: for every reading sequence the counts add up as above and
\* complianceRate = 100 * compliantReadings / totalReadings.
C20_StatsForEverySequence ==
    pc \in { "stats", "derived" } =>
        /\ StatsCounts
        /\ stats.complianceRate = Divide(100 * stats.compliantReadings, stats.totalReadings)

\* C20, amended: the counts add up for every reading sequence; the compliance
\* rate is 100 * compliantReadings / totalReadings for a non-empty sequence
\* and 0 for the empty one.
C20_StatsWithGuardedRate ==
    pc \in { "stats", "derived" } =>
        /\ StatsCounts
        /\ stats.complianceRate =
             IF Len(readings) > 0
             THEN Divide(100 * stats.compliantReadings, stats.totalReadings)
             ELSE Zero

\* C20 witness: three readings, a compliant one and a violation before 22:00
\* and a violation after it: rate 100/3, 2/60 violation hours
C20_Witness ==
    /\ pc = "stats"
    /\ Len(readings) = 3
    /\ stats.compliantReadings = 1
    /\ stats.dayTimeViolations = 1
    /\ stats.nightTimeViolations = 1
    /\ stats.complianceRate = [num |-> 100, den |-> 3]
    /\ stats.totalViolationHours = [num |-> 1, den |-> 30]

(***************************************************************************)
(* Specification SpecShared: invocations that share one reading sequence   *)
(*                                                                         *)
(* The functions are synchronous, so invocations interleave as wholes. An  *)
(* effect is what the arrays an invocation can reach hold when it returns: *)
(* its input array and the array it returns. returned is the set of        *)
(* invocations that have returned; args keeps the sequence as it was given.*)
(***************************************************************************)
AggregateEffectSortingInput(rs, iv) ==
    [readings |-> SortByTimestamp(rs), aggregated |-> aggregateReadings(rs, iv)]

\* readings is read by forEach and map; push and sort act on new arrays
AggregateEffect(rs, iv) ==
    [readings |-> rs, aggregated |-> aggregateReadings(rs, iv)]

\* readings is read by forEach; push acts on the scan's own arrays; the
\* merge pass copies periods[0] and builds each merged period anew
IdentifyEffect(rs, tol) ==
    [readings |-> rs, result |-> identifyViolationPeriods(rs, tol)]

\* periods is read by forEach; push and sort act on the arrays of dayMap
GroupEffect(ps) ==
    [periods |-> ps, dayViolations |-> groupViolationsByDay(ps)]

SharedTimestamps == { At(21, 59, 1), At(22, 0, 0), At(22, 5, 0) }

\* in any order
SharedInputs == SeqsUpTo(ReadingsAt(SharedTimestamps), MaxLen - 1)

InitShared ==
    \E rs \in SharedInputs :
        /\ readings = rs
        /\ args = [readings |-> rs]
        /\ returned = {}
        /\ pc = "shared"
        /\ gapToleranceMinutes = DefaultGapTolerance
        /\ i = 0
        /\ currentPeriod = NoPeriod
        /\ periods = <<>>
        /\ mi = 0
        /\ current = NoAccumulator
        /\ merged = <<>>
        /\ result = <<>>
        /\ again = <<>>
        /\ interval = "none"
        /\ aggregated = <<>>
        /\ NoDerived
        /\ PageConstructed

SharedAggregate ==
    /\ pc = "shared"
    /\ \E iv \in Intervals :
         /\ iv \notin returned
         /\ LET effect == AggregateEffect(readings, iv)
            IN  /\ readings' = effect.readings
                /\ aggregated' = effect.aggregated
         /\ interval' = iv
         /\ returned' = returned \cup { iv }
    /\ UNCHANGED <<pc, args, gapToleranceMinutes, i, currentPeriod, periods, mi,
                   current, merged, result, again>>
    /\ UNCHANGED <<derivedVars, pageVars>>

SharedIdentify ==
    /\ pc = "shared"
    /\ "identifyViolationPeriods" \notin returned
    /\ LET effect == IdentifyEffect(readings, gapToleranceMinutes)
       IN  /\ readings' = effect.readings
           /\ result' = effect.result
    /\ returned' = returned \cup { "identifyViolationPeriods" }
    /\ UNCHANGED <<pc, args, gapToleranceMinutes, i, currentPeriod, periods, mi,
                   current, merged, again, interval, aggregated>>
    /\ UNCHANGED <<derivedVars, pageVars>>

SharedGroup ==
    /\ pc = "shared"
    /\ "identifyViolationPeriods" \in returned
    /\ "groupViolationsByDay" \notin returned
    /\ LET effect == GroupEffect(result)
       IN  /\ result' = effect.periods
           /\ dayViolations' = effect.dayViolations
    /\ returned' = returned \cup { "groupViolationsByDay" }
    /\ UNCHANGED <<pc, args, readings, gapToleranceMinutes, i, currentPeriod, periods,
                   mi, current, merged, again, interval, aggregated>>
    /\ UNCHANGED <<stats, pageVars>>

NextShared == SharedAggregate \/ SharedIdentify \/ SharedGroup

SpecShared == InitShared /\ [][NextShared]_vars

ReadingsOfPeriod(p) ==
    { k \in DOMAIN readings :
        /\ Violation(k)
        /\ TypeOfReading(readings[k]) = p.type
        /\ p.start <= readings[k].timestamp
        /\ readings[k].timestamp <= p.end }

RECURSIVE SumOfTemperatures(_)
SumOfTemperatures(K) ==
    IF K = {} THEN 0
    ELSE LET k == CHOOSE x \in K : TRUE
         IN  readings[k].temperature + SumOfTemperatures(K \ { k })

\* the mean temperature of the readings at the indices K, which is not empty
MeanTemperature(K) == Frac(SumOfTemperatures(K), Cardinality(K))

\* C22: every merge, one onto an already merged accumulator included, weights
\* the two avgTemps by the counts of the readings behind them, so a returned
\* period's avgTemp is the mean temperature of all its non-compliant readings.
C22_AvgTempIsMeanOfReadings ==
    pc = "done" =>
        \A k \in DOMAIN result :
            result[k].avgTemp = MeanTemperature(ReadingsOfPeriod(result[k]))

(***************************************************************************)
(* Buckets and the readings they stand for                                 *)
(***************************************************************************)
RECURSIVE SumOfHumidities(_)
SumOfHumidities(K) ==
    IF K = {} THEN 0
    ELSE LET k == CHOOSE x \in K : TRUE
         IN  readings[k].humidity + SumOfHumidities(K \ { k })

\* the ticks of the selected interval
IntervalTicks == IntervalWidth * MinuteTicks

\* the greatest multiple of the interval that is not after ts
KeyOf(ts) == WindowStart(ts, IntervalWidth)

\* C23: with the 5-, 30- and 60-minute intervals every reading has exactly
\* one bucket, the one at floor(t / interval) * interval; there is one bucket
\* per distinct key, every bucket timestamp is a multiple of the interval,
\* and a bucket's count, average, minimum and maximum temperature and
\* average humidity are those of exactly the readings with its key. Scenario
\* A at 5 minutes is one bucket: avg 68, min 66, max 70, 2 violations of 5.
C23_BucketsByFlooredKey ==
    (pc = "aggregated" /\ interval # "1min") =>
        /\ \A k \in DOMAIN readings :
             Cardinality({ b \in DOMAIN aggregated :
                             aggregated[b].timestamp = KeyOf(readings[k].timestamp) }) = 1
        /\ Len(aggregated) =
             Cardinality({ KeyOf(readings[k].timestamp) : k \in DOMAIN readings })
        /\ \A b \in DOMAIN aggregated :
             LET K == { k \in DOMAIN readings :
                          KeyOf(readings[k].timestamp) = aggregated[b].timestamp }
                 temperatures == { readings[k].temperature : k \in K }
             IN  /\ aggregated[b].timestamp % IntervalTicks = 0
                 /\ K # {}
                 /\ aggregated[b].totalReadings = Cardinality(K)
                 /\ aggregated[b].avgTemperature = MeanTemperature(K)
                 /\ aggregated[b].minTemperature \in temperatures
                 /\ \A t \in temperatures : aggregated[b].minTemperature <= t
                 /\ aggregated[b].maxTemperature \in temperatures
                 /\ \A t \in temperatures : aggregated[b].maxTemperature >= t
                 /\ aggregated[b].avgHumidity = Frac(SumOfHumidities(K), Cardinality(K))
        /\ (readings = ScenarioA /\ interval = "5min") =>
             /\ Len(aggregated) = 1
             /\ aggregated[1].timestamp = At(10, 0, 0)
             /\ aggregated[1].avgTemperature = [num |-> 68, den |-> 1]
             /\ aggregated[1].minTemperature = 66
             /\ aggregated[1].maxTemperature = 70
             /\ aggregated[1].violationCount = 2
             /\ ~aggregated[1].isCompliant
             /\ aggregated[1].totalReadings = 5

\* C23 witness: three readings given out of order fall into two 5-minute
\* buckets, 21:55 with two readings and 22:00 with one
C23_Witness ==
    /\ pc = "aggregated"
    /\ interval = "5min"
    /\ Len(readings) = 3
    /\ readings[1].timestamp = At(22, 0, 0)
    /\ readings[2].timestamp = At(21, 58, 0)
    /\ readings[3].timestamp = At(21, 59, 1)
    /\ readings[2].temperature # readings[3].temperature
    /\ Len(aggregated) = 2
    /\ aggregated[1].timestamp = At(21, 55, 0)
    /\ aggregated[1].totalReadings = 2
    /\ aggregated[2].timestamp = At(22, 0, 0)

(***************************************************************************)
(* Radiator state when the previous reading does not decide                *)
(***************************************************************************)
\* the neighbour is absent, or its change (in tenths of a degree) is within
\* -0.3 .. 0.3
Inconclusive(neighbour, change) ==
    neighbour = Null \/ (-3 <= change /\ change <= 3)

\* C24: for a current temperature of 70 or more whose previous temperature
\* is absent or within 0.3 of it, a next temperature more than 0.3 higher
\* gives "on" and one more than 0.3 lower gives "cooling"; when the next
\* temperature is absent or within 0.3 as well, the result is "on" from 90
\* degrees and "cooling" below.
C24_NextDeltaThenMagnitude ==
    (/\ pc = "classified"
     /\ args.currentTemp >= 700
     /\ Inconclusive(args.previousTemp,
                     IF args.previousTemp = Null THEN 0
                     ELSE args.currentTemp - args.previousTemp[1])) =>
        LET next == args.nextTemp
            rise == IF next = Null THEN 0 ELSE next[1] - args.currentTemp
        IN  /\ (next # Null /\ rise > 3) => returned = "on"
            /\ (next # Null /\ rise < -3) => returned = "cooling"
            /\ Inconclusive(next, rise) =>
                 returned = (IF args.currentTemp >= 900 THEN "on" ELSE "cooling")

\* C24 witness: 70.0 with no previous reading and a next reading of 70.3, a
\* rise of exactly 0.3, is "cooling" by its magnitude
C24_Witness ==
    /\ pc = "classified"
    /\ args.currentTemp = 700
    /\ args.previousTemp = Null
    /\ args.nextTemp = <<703>>
    /\ returned = "cooling"

(***************************************************************************)
(* Specification SpecGroup: one call of groupViolationsByDay on a period   *)
(* list in any order                                                       *)
(***************************************************************************)
\* a nighttime period as finalizePeriod builds it from one reading per minute
PeriodOver(start, end) ==
    [start    |-> start,
     end      |-> end,
     duration |-> (end - start) \div MinuteTicks + 1,
     minTemp  |-> 60,
     maxTemp  |-> 61,
     avgTemp  |-> Frac(121, 2),
     type     |-> "nighttime"]

\* periods of January 1, 2 and 3: one that starts at midnight, one within a
\* day, two that start on one day and end on the next, and two that start
\* at the same instant
GroupPeriodChoices ==
    { PeriodOver(DateAt(0, 1, 22, 0, 0), DateAt(0, 1, 22, 5, 0)),
      PeriodOver(DateAt(0, 1, 23, 58, 0), DateAt(0, 2, 0, 3, 0)),
      PeriodOver(DateAt(0, 2, 0, 0, 0), DateAt(0, 2, 0, 0, 0)),
      PeriodOver(DateAt(0, 2, 5, 0, 0), DateAt(0, 2, 5, 1, 0)),
      PeriodOver(DateAt(0, 2, 23, 59, 1), DateAt(0, 3, 0, 1, 1)),
      PeriodOver(DateAt(0, 2, 23, 59, 1), DateAt(0, 3, 0, 4, 1)) }

GroupInputs == SeqsUpTo(GroupPeriodChoices, MaxLen)

InitGroup ==
    \E ps \in GroupInputs :
        /\ pc = "groupViolationsByDay"
        /\ args = [periods |-> ps]
        /\ returned = <<>>
        /\ NoPipeline
        /\ NoDerived
        /\ PageConstructed

GroupByDay ==
    /\ pc = "groupViolationsByDay"
    /\ returned' = groupViolationsByDay(args.periods)
    /\ pc' = "groupedByDay"
    /\ UNCHANGED <<args, readings, gapToleranceMinutes, i, currentPeriod, periods, mi,
                   current, merged, result, again, interval, aggregated>>
    /\ UNCHANGED <<derivedVars, pageVars>>

NextGroup == GroupByDay

SpecGroup == InitGroup /\ [][NextGroup]_vars

\* how often period p occurs in the list ps
Occurrences(ps, p) == Cardinality({ k \in DOMAIN ps : ps[k] = p })

\* local midnight of the calendar day of ts
MidnightOf(ts) == ts - (ts % DayTicks)

\* C25: groupViolationsByDay puts each period in exactly one group, the one
\* dated local midnight of the day of the period's start, also when the
\* period ends on a later day; group dates are distinct and descending, and
\* the periods of a group ascend by start.
C25_GroupedByStartDay ==
    pc = "groupedByDay" =>
        /\ \A p \in Range(args.periods) :
             /\ \E d \in DOMAIN returned :
                  /\ returned[d].date = MidnightOf(p.start)
                  /\ Occurrences(returned[d].periods, p) = Occurrences(args.periods, p)
             /\ \A d \in DOMAIN returned :
                  returned[d].date # MidnightOf(p.start) =>
                      Occurrences(returned[d].periods, p) = 0
        /\ \A d \in DOMAIN returned :
             /\ returned[d].periods # <<>>
             /\ Range(returned[d].periods) \subseteq Range(args.periods)
             /\ \A q, r \in DOMAIN returned[d].periods :
                  q < r => returned[d].periods[q].start <= returned[d].periods[r].start
        /\ \A d, e \in DOMAIN returned : d < e => returned[d].date > returned[e].date

\* C25 witness: a period of January 2 is given before one that starts on
\* January 1 and ends on January 2 and before an earlier one of January 1;
\* the result is the group of January 2 and then the group of January 1
C25_Witness ==
    /\ pc = "groupedByDay"
    /\ Len(args.periods) = 3
    /\ args.periods[1].start = DateAt(0, 2, 5, 0, 0)
    /\ args.periods[2].start = DateAt(0, 1, 23, 58, 0)
    /\ args.periods[2].end = DateAt(0, 2, 0, 3, 0)
    /\ args.periods[3].start = DateAt(0, 1, 22, 0, 0)
    /\ Len(returned) = 2
    /\ returned[1].date = DateAt(0, 2, 0, 0, 0)
    /\ returned[2].date = DateAt(0, 1, 0, 0, 0)
    /\ returned[2].periods = <<args.periods[3], args.periods[2]>>

(***************************************************************************)
(* Specification SpecPeriods: identifyViolationPeriods on readings whose   *)
(* flags checkCompliance has set, with tolerances from 0                   *)
(***************************************************************************)
\* <<temperature, outdoorTemp>>: below both thresholds, between them, and
\* below the night threshold on a mild day
CheckedOptions == { <<60, Undefined>>, <<67, Undefined>>, <<61, <<57>>>> }

\* the reading as parseTemperatureCSV and the page's enrichment build it
CheckedReading(ts, option) ==
    Reading(ts, option[1], 40, checkCompliance(ts, option[1], option[2]).isCompliant)

\* both sides of 22:00 on January 1 and of 6:00 on January 2
CheckedTimestamps ==
    { DateAt(0, 1, 21, 59, 0), DateAt(0, 1, 22, 0, 0), DateAt(0, 1, 22, 2, 0),
      DateAt(0, 2, 5, 59, 0), DateAt(0, 2, 6, 0, 0) }

CheckedInputs ==
    { rs \in SeqsUpTo({ CheckedReading(ts, o) : ts \in CheckedTimestamps,
                                                 o \in CheckedOptions }, MaxLen) :
        IsSorted(rs) }

\* one reading per minute, from 10:00 or from 21:57
MinutelyStarts == { At(10, 0, 0), At(21, 57, 0) }

MinutelyOptions == { <<60, Undefined>>, <<68, Undefined>> }

MinutelyInputs ==
    UNION { { [k \in 1..n |-> CheckedReading(start + (k - 1) * MinuteTicks, o[k])] :
                start \in MinutelyStarts, o \in [1..n -> MinutelyOptions] } :
            n \in 1..(2 * LongRuns - 1) }

PeriodTolerances == { 0, 2, DefaultGapTolerance }

InitChecked == \E rs \in CheckedInputs, tol \in PeriodTolerances : InitScan(rs, tol)

InitMinutely == \E rs \in MinutelyInputs, tol \in PeriodTolerances : InitScan(rs, tol)

InitPeriods == InitChecked \/ InitMinutely

SpecPeriods == InitPeriods /\ [][Next]_vars

\* the threshold ViolationPeriods shows for a period
ThresholdOf(type) == IF type = "daytime" THEN 68 ELSE 62

\* every flag is what checkCompliance returns for the reading, with some
\* outdoor temperature or none
FlagsChecked ==
    \A k \in DOMAIN readings :
        \E o \in OutdoorArgs :
            readings[k].isCompliant =
                checkCompliance(readings[k].timestamp, readings[k].temperature, o).isCompliant

BelowThreshold(p) ==
    LET requiredTemp == ThresholdOf(p.type)
    IN  /\ p.minTemp < requiredTemp
        /\ p.maxTemp < requiredTemp
        /\ p.avgTemp.den > 0
        /\ p.avgTemp.num < requiredTemp * p.avgTemp.den
        /\ requiredTemp - p.minTemp > 0

\* C26: when every flag comes from checkCompliance, every period, before
\* and after merging, has its minimum, average and maximum temperature
\* strictly below the threshold of its type (68 daytime, 62 nighttime), so
\* threshold - minTemp is positive.
C26_PeriodsBelowThreshold ==
    FlagsChecked =>
        /\ \A k \in DOMAIN periods : BelowThreshold(periods[k])
        /\ pc = "done" => \A k \in DOMAIN result : BelowThreshold(result[k])

\* C26 witness: a nighttime violation at 5:59 is followed by a daytime one
\* at 6:00 with 67 degrees, which would not be a violation at night
C26_Witness ==
    /\ pc = "done"
    /\ FlagsChecked
    /\ Len(result) = 2
    /\ result[1].type = "nighttime"
    /\ result[1].end = DateAt(0, 2, 5, 59, 0)
    /\ result[2].type = "daytime"
    /\ result[2].start = DateAt(0, 2, 6, 0, 0)
    /\ result[2].minTemp = 67

(***************************************************************************)
(* Duration of a period of one-per-minute readings                         *)
(***************************************************************************)
\* exactly one reading per minute, in ascending order
OnePerMinute ==
    \A k \in 1..(Len(readings) - 1) :
        readings[k + 1].timestamp - readings[k].timestamp = MinuteTicks

\* the pre-merge runs that lie within period p
RunsWithin(p) == { j \in DOMAIN periods : p.start <= periods[j].start /\ periods[j].end <= p.end }

\* C27: with exactly one reading per minute, a returned period formed from
\* k pre-merge runs has duration (end - start in minutes) + 1 + (k - 1): the
\* inclusive minute span when unmerged, and one more minute per merge.
C27_DurationOfMinutelyPeriod ==
    (pc = "done" /\ OnePerMinute) =>
        \A r \in DOMAIN result :
            LET k == Cardinality(RunsWithin(result[r]))
            IN  /\ k >= 1
                /\ result[r].duration =
                     (result[r].end - result[r].start) \div MinuteTicks + 1 + (k - 1)

\* C27 witness: three single-reading runs at 10:00, 10:02 and 10:04 become
\* one period of duration 7 over a span of 5 minutes
C27_Witness ==
    /\ pc = "done"
    /\ OnePerMinute
    /\ Len(readings) = 5
    /\ Len(periods) = 3
    /\ Len(result) = 1
    /\ result[1].start = At(10, 0, 0)
    /\ result[1].end = At(10, 4, 0)
    /\ result[1].duration = 7

(***************************************************************************)
(* Order and separation of the returned periods                            *)
(***************************************************************************)
\* C28: for readings sorted ascending and a tolerance of 0 or more, the
\* returned periods are chronological (start <= end, and each end is not
\* after the next start), and two consecutive periods differ in type or are
\* more than the tolerance apart: no pair that qualifies is left unmerged.
C28_ChronologicalAndSeparated ==
    (pc = "done" /\ IsSorted(readings) /\ gapToleranceMinutes >= 0) =>
        /\ \A r \in DOMAIN result : result[r].start <= result[r].end
        /\ \A r \in 1..(Len(result) - 1) :
             /\ result[r].end <= result[r + 1].start
             /\ \/ result[r].type # result[r + 1].type
                \/ result[r + 1].start - result[r].end > gapToleranceMinutes * MinuteTicks

\* C28 witness: with tolerance 0 two nighttime periods two minutes apart
\* stay separate
C28_Witness ==
    /\ pc = "done"
    /\ gapToleranceMinutes = 0
    /\ Len(result) = 2
    /\ result[1].type = "nighttime"
    /\ result[2].type = "nighttime"
    /\ result[1].end = DateAt(0, 1, 22, 0, 0)
    /\ result[2].start = DateAt(0, 1, 22, 2, 0)

(***************************************************************************)
(* Specification SpecPageFair: loadData when every awaited promise         *)
(* settles, resolved or rejected                                           *)
(***************************************************************************)
SpecPageFair == SpecPage /\ WF_vars(NextPage)

\* loadData has returned, early or at its end
LoadEnded == pc \in { "returned", "loaded" }

\* the page's state once loadData has returned
EndOfLoad ==
    /\ ~loading
    /\ ~outdoorDataLoading
    /\ (error # Null) <=> (Len(indoorData) = 0)
    /\ Len(indoorData) > 0 =>
         /\ pc = "loaded"
         /\ Len(allReadings) = Len(indoorData)
         /\ \A k \in DOMAIN indoorData :
              /\ allReadings[k].timestamp = indoorData[k].timestamp
              /\ allReadings[k].temperature = indoorData[k].temperature
              /\ allReadings[k].humidity = indoorData[k].humidity
    /\ (pc = "loaded" /\ returned.status = "rejected") => allReadings = indoorData

\* C29: whatever succeeds or fails among the indoor load, the radiator load
\* and the outdoor fetch, loadData ends, and ends with loading and
\* outdoorDataLoading false; error is set exactly when the indoor load
\* failed or gave no readings; the outcome of the radiator load and of the
\* outdoor fetch never sets error, and the indoor readings are stored.
C29_LoadEndsSettled ==
    /\ <>LoadEnded
    /\ [](LoadEnded => EndOfLoad)
    /\ [][(pc \in { "loadRadiatorData", "fetchOutdoorTemperature" }) => (error' = Null)]_vars

\* C29 witness: the indoor load succeeded and the outdoor fetch failed; the
\* indoor readings are stored as loaded and no error is shown
C29_Witness ==
    /\ pc = "loaded"
    /\ returned.status = "rejected"
    /\ Len(indoorData) = 2
    /\ allReadings = indoorData
    /\ error = Null
    /\ ~loading
    /\ ~outdoorDataLoading

(***************************************************************************)
(* JavaScript numbers as IEEE 754 binary64 values                          *)
(*                                                                         *)
(* A temperature from 32 up to 512 is an integer number of units of 2^-47, *)
(* a multiple of the spacing of binary64 values at its size: 1 unit from   *)
(* 32, 2 units from 64, 4 from 128 and 8 from 256.  The integer is kept as *)
(* hi * 2^26 + lo.  Sums, products and quotients are formed exactly and    *)
(* then rounded to the nearest binary64 value, a tie to the even mantissa. *)
(***************************************************************************)
Base == 2 ^ 26

Double(hi, lo) == [hi |-> hi, lo |-> lo]

\* parseFloat of the CSV's one-decimal text: the nearest binary64 value
parseFloat(text) ==
    CASE text = "55.2" -> Double(115762790, 26843546)
      [] text = "58.3" -> Double(122263961, 40265318)
      [] text = "60.1" -> Double(126038835, 13421773)

\* a <= b
NumLE(a, b) == a.hi < b.hi \/ (a.hi = b.hi /\ a.lo <= b.lo)

\* a + b, exactly
NumAdd(a, b) ==
    LET lo == a.lo + b.lo
    IN  Double(a.hi + b.hi + lo \div Base, lo % Base)

\* a * d for a small natural d, exactly
NumTimes(a, d) ==
    LET lo == a.lo * d
    IN  Double(a.hi * d + lo \div Base, lo % Base)

\* the spacing of binary64 values at x, in units
UlpOf(x) ==
    IF x.hi < 2 ^ 27 THEN 1
    ELSE IF x.hi < 2 ^ 28 THEN 2
    ELSE IF x.hi < 2 ^ 29 THEN 4
    ELSE 8

\* the binary64 value nearest to x + r / n, where 0 <= r < n
RoundNearestEven(x, r, n) ==
    LET u     == UlpOf(x)
        low   == x.lo % u
        down  == Double(x.hi, x.lo - low)
        up    == NumAdd(down, Double(0, u))
        twice == 2 * (low * n + r)
        even  == ((x.lo - low) \div u) % 2 = 0
    IN  IF twice < u * n THEN down
        ELSE IF twice > u * n THEN up
        ELSE IF even THEN down ELSE up

\* a + b
DoubleAdd(a, b) == RoundNearestEven(NumAdd(a, b), 0, 1)

\* a * d
DoubleTimes(a, d) == RoundNearestEven(NumTimes(a, d), 0, 1)

\* a / n
DoubleDivide(a, n) ==
    LET low == (a.hi % n) * Base + a.lo
    IN  RoundNearestEven(Double(a.hi \div n, low \div n), low % n, n)

\* temps.reduce((a, b) => a + b, 0), from element k on with acc so far;
\* 0 + temps[1] is temps[1]
RECURSIVE ReduceSum(_, _, _)
ReduceSum(temps, k, acc) ==
    IF k > Len(temps) THEN acc
    ELSE ReduceSum(temps, k + 1, IF k = 1 THEN temps[1] ELSE DoubleAdd(acc, temps[k]))

\* temps.reduce((a, b) => a + b, 0) / temps.length
DoubleMean(temps) == DoubleDivide(ReduceSum(temps, 1, temps[1]), Len(temps))

DoubleMinFirst(temps) == temps[1]

\* Math.min(...temps)
DoubleMin(temps) == CHOOSE x \in Range(temps) : \A y \in Range(temps) : NumLE(x, y)

\* Math.max(...temps)
DoubleMax(temps) == CHOOSE x \in Range(temps) : \A y \in Range(temps) : NumLE(y, x)

(***************************************************************************)
(* The bucket and period statistics on binary64 temperatures               *)
(***************************************************************************)
AggregateBucketDouble(bucketTime, bucketReadings) ==
    LET temps == Temps(bucketReadings)
    IN  [timestamp      |-> bucketTime,
         avgTemperature |-> DoubleMean(temps),
         minTemperature |-> DoubleMin(temps),
         maxTemperature |-> DoubleMax(temps),
         violationCount |-> CountViolations(bucketReadings),
         totalReadings  |-> Len(bucketReadings)]

\* the "1min" pass-through, and one bucket per group otherwise
aggregateReadingsDouble(rs, iv) ==
    IF iv = "1min"
    THEN [k \in DOMAIN rs |->
            [timestamp      |-> rs[k].timestamp,
             avgTemperature |-> rs[k].temperature,
             minTemperature |-> rs[k].temperature,
             maxTemperature |-> rs[k].temperature,
             violationCount |-> IF rs[k].isCompliant THEN 0 ELSE 1,
             totalReadings  |-> 1]]
    ELSE LET buckets == GroupReadings(rs, 1, <<>>, getIntervalMinutes(iv))
         IN  SortByTimestamp([b \in DOMAIN buckets |->
                 AggregateBucketDouble(buckets[b].key, buckets[b].readings)])

finalizePeriodDouble(period) ==
    LET temps == Temps(period.readings)
    IN  [start    |-> period.start,
         end      |-> period.readings[Len(period.readings)].timestamp,
         duration |-> Len(period.readings),
         minTemp  |-> DoubleMin(temps),
         maxTemp  |-> DoubleMax(temps),
         avgTemp  |-> DoubleMean(temps),
         type     |-> period.type]

\* the forEach of identifyViolationPeriods
RECURSIVE ScanDouble(_, _, _, _)
ScanDouble(rs, k, cp, ps) ==
    IF k > Len(rs)
    THEN IF cp # NoPeriod THEN Append(ps, finalizePeriodDouble(cp)) ELSE ps
    ELSE IF ~rs[k].isCompliant
    THEN LET type == PeriodType(getHours(rs[k].timestamp))
         IN  IF cp # NoPeriod /\ cp.type = type
             THEN ScanDouble(rs, k + 1, [cp EXCEPT !.readings = Append(@, rs[k])], ps)
             ELSE ScanDouble(rs, k + 1,
                             [start |-> rs[k].timestamp, readings |-> <<rs[k]>>,
                              type |-> type],
                             IF cp # NoPeriod THEN Append(ps, finalizePeriodDouble(cp))
                             ELSE ps)
    ELSE ScanDouble(rs, k + 1, NoPeriod,
                    IF cp # NoPeriod THEN Append(ps, finalizePeriodDouble(cp)) ELSE ps)

MergedPeriodDouble(cur, next) ==
    [start    |-> cur.start,
     end      |-> next.end,
     duration |-> cur.duration + next.duration + RoundMinutes(GapTicks(cur, next)),
     minTemp  |-> IF NumLE(cur.minTemp, next.minTemp) THEN cur.minTemp ELSE next.minTemp,
     maxTemp  |-> IF NumLE(next.maxTemp, cur.maxTemp) THEN cur.maxTemp ELSE next.maxTemp,
     avgTemp  |-> DoubleDivide(DoubleAdd(DoubleTimes(cur.avgTemp, cur.duration),
                                         DoubleTimes(next.avgTemp, next.duration)),
                               cur.duration + next.duration),
     type     |-> cur.type]

RECURSIVE MergeLoopDouble(_, _, _, _, _)
MergeLoopDouble(ps, k, cur, mrg, tol) ==
    IF k > Len(ps) THEN Append(mrg, cur)
    ELSE IF ShouldMerge(cur, ps[k], tol)
    THEN MergeLoopDouble(ps, k + 1, MergedPeriodDouble(cur, ps[k]), mrg, tol)
    ELSE MergeLoopDouble(ps, k + 1, ps[k], Append(mrg, cur), tol)

identifyViolationPeriodsDouble(rs, tol) ==
    LET ps == ScanDouble(rs, 1, NoPeriod, <<>>)
    IN  IF Len(ps) = 0 THEN ps ELSE MergeLoopDouble(ps, 2, ps[1], <<>>, tol)

(***************************************************************************)
(* Specification SpecDouble: buckets and periods of one-per-minute         *)
(* readings with binary64 temperatures                                     *)
(***************************************************************************)
TemperatureTexts == { "55.2", "58.3", "60.1" }

DoubleLen == MaxLen + 1

\* readings at 10:00, 10:01, ... within one 5-minute window
DoubleInputs ==
    UNION { { [k \in 1..n |-> Reading(At(10, k - 1, 0), parseFloat(text[k]), 40, ok[k])] :
                text \in [1..n -> TemperatureTexts], ok \in [1..n -> BOOLEAN] } :
            n \in 1..DoubleLen }

InitDouble ==
    \E rs \in DoubleInputs :
        /\ pc = "double"
        /\ args = [readings |-> rs]
        /\ returned = <<>>
        /\ NoPipeline
        /\ NoDerived
        /\ PageConstructed

AggregateDouble ==
    /\ pc = "double"
    /\ \E iv \in { "1min", "5min" } :
         returned' = aggregateReadingsDouble(args.readings, iv)
    /\ pc' = "buckets"
    /\ UNCHANGED <<args, readings, gapToleranceMinutes, i, currentPeriod, periods, mi,
                   current, merged, result, again, interval, aggregated>>
    /\ UNCHANGED <<derivedVars, pageVars>>

IdentifyDouble ==
    /\ pc = "double"
    /\ returned' = identifyViolationPeriodsDouble(args.readings, DefaultGapTolerance)
    /\ pc' = "periods"
    /\ UNCHANGED <<args, readings, gapToleranceMinutes, i, currentPeriod, periods, mi,
                   current, merged, result, again, interval, aggregated>>
    /\ UNCHANGED <<derivedVars, pageVars>>

NextDouble == AggregateDouble \/ IdentifyDouble

SpecDouble == InitDouble /\ [][NextDouble]_vars

Slack == Double(0, Len(args.readings))

\* lo - Slack <= x <= hi + Slack
WithinSlack(lo, x, hi) == NumLE(lo, NumAdd(x, Slack)) /\ NumLE(x, NumAdd(hi, Slack))

====
